---- MODULE Spec2Model ----
(***************************************************************************)
(* The decoding engine of src/src/decoder.py: the per-source keyword and   *)
(* pattern tables, TransactionSMSDecoder.decode with its two classifiers,  *)
(* the decoders registry and the batch driver decode_smses.                *)
(*                                                                         *)
(* Text is a TLA+ string.  A Python value is a record [t, v] (its type and *)
(* its text); a dict is a function from its keys to such values.           *)
(***************************************************************************)
EXTENDS Integers, Sequences, FiniteSets, TLC

VARIABLES
    smses,      \* the batch handed to decode_smses: a sequence of SMS
    i,          \* decode_smses: the loop index (0-based)
    pc,         \* where the running call stands
    data,       \* the value the last decoder method returned
    out,        \* the lines printed so far
    invoked     \* the indices (1-based) of the messages a decoder was run on

vars == <<smses, i, pc, data, out, invoked>>

-----------------------------------------------------------------------------
(* Python values                                                           *)

None == [t |-> "none", v |-> "None"]
Str(s) == [t |-> "str", v |-> s]
PyTrue == [t |-> "bool", v |-> "True"]
PyFalse == [t |-> "bool", v |-> "False"]
PyBool(b) == IF b THEN PyTrue ELSE PyFalse

\* d[k] = v on a dict
SetItem(d, k, v) == (k :> v) @@ d

\* d.get(k, default)
DictGet(d, k, default) == IF k \in DOMAIN d THEN d[k] ELSE default

\* sub in s, on str
PyIn(sub, s) ==
    \E p \in 0..(Len(s) - Len(sub)) : SubSeq(s, p + 1, p + Len(sub)) = sub

\* any(f(x) for x in xs) and all(f(x) for x in xs), for f a containment test
RECURSIVE AnyIn(_, _, _)
AnyIn(keywords, s, k) ==
    IF k > Len(keywords) THEN FALSE
    ELSE IF PyIn(keywords[k], s) THEN TRUE
    ELSE AnyIn(keywords, s, k + 1)

RECURSIVE AllNotIn(_, _, _)
AllNotIn(keywords, s, k) ==
    IF k > Len(keywords) THEN TRUE
    ELSE IF PyIn(keywords[k], s) THEN FALSE
    ELSE AllNotIn(keywords, s, k + 1)

SMS(address, body) == [address |-> address, body |-> body]

-----------------------------------------------------------------------------
(* re.match, for the constructs the pattern tables use.  A pattern is a     *)
(* sequence of items; a character set is a record.                         *)

AZ == {"a", "b", "c", "d", "e", "f", "g", "h", "i", "j", "k", "l", "m",
       "n", "o", "p", "q", "r", "s", "t", "u", "v", "w", "x", "y", "z"}
D09 == {"0", "1", "2", "3", "4", "5", "6", "7", "8", "9"}
\* \w on lower-cased text
Word == AZ \cup D09 \cup {"_"}

\* [...] without \W, [...] with \W in it, and .
In(cs) == [any |-> FALSE, nw |-> FALSE, cs |-> cs]
NotWordOr(cs) == [any |-> FALSE, nw |-> TRUE, cs |-> cs]
Dot == [any |-> TRUE, nw |-> FALSE, cs |-> {}]

InClass(c, k) ==
    \/ k.any /\ c # "\n"
    \/ c \in k.cs
    \/ k.nw /\ c \notin Word

\* literal text; k+, k*, k?, k; ( ... ) as group g; ( ... )? ; a|b
Lit(s) == [t |-> "lit", s |-> s]
Plus(k) == [t |-> "rep", lo |-> 1, hi |-> -1, k |-> k]
Star(k) == [t |-> "rep", lo |-> 0, hi |-> -1, k |-> k]
Opt(k) == [t |-> "rep", lo |-> 0, hi |-> 1, k |-> k]
One(k) == [t |-> "rep", lo |-> 1, hi |-> 1, k |-> k]
Grp(g, body) == [t |-> "grp", g |-> g, body |-> body]
OptSeq(body) == [t |-> "opt", body |-> body]
Alt(alts) == [t |-> "alt", alts |-> alts]

\* the number of capture groups of a pattern
RECURSIVE re_groups(_)
re_groups(items) ==
    IF Len(items) = 0 THEN 0
    ELSE IF Len(items) > 1
    THEN re_groups(SubSeq(items, 1, Len(items) \div 2))
         + re_groups(SubSeq(items, Len(items) \div 2 + 1, Len(items)))
    ELSE CASE items[1].t = "grp" -> 1 + re_groups(items[1].body)
           [] items[1].t = "opt" -> re_groups(items[1].body)
           [] items[1].t = "alt" ->
                re_groups(items[1].alts[1])
                + (IF Len(items[1].alts) > 1
                   THEN re_groups(<<Alt(Tail(items[1].alts))>>) ELSE 0)
           [] OTHER -> 0

NoMatch == [ok |-> FALSE, groups |-> <<>>]

\* how many characters of s from pos on are in k, at most hi (hi < 0: no limit)
re_run(k, s, pos, hi) ==
    LET left == Len(s) - pos + 1
        most == IF hi >= 0 /\ hi < left THEN hi ELSE left
        Stops(n) == ~InClass(SubSeq(s, pos + n, pos + n), k)
    IN IF \A n \in 0..(most - 1) : ~Stops(n) THEN most
       ELSE CHOOSE n \in 0..(most - 1) : Stops(n) /\ \A o \in 0..(n - 1) : ~Stops(o)

\* how many characters of s before pos are in k, at most hi (hi < 0: no limit)
re_run_back(k, s, pos, hi) ==
    LET left == pos - 1
        most == IF hi >= 0 /\ hi < left THEN hi ELSE left
        Stops(n) == ~InClass(SubSeq(s, pos - 1 - n, pos - 1 - n), k)
    IN IF \A n \in 0..(most - 1) : ~Stops(n) THEN most
       ELSE CHOOSE n \in 0..(most - 1) : Stops(n) /\ \A o \in 0..(n - 1) : ~Stops(o)

\* the positions from which items match s up to some position of ends.
\* A long pattern is cut in two halves. (The sets of one element give each
\* value a name under which it is computed once.)
RECURSIVE re_from(_, _, _)
re_from(items, s, ends) ==
    UNION {
      IF e = {} \/ Len(it) = 0 THEN e
      ELSE IF Len(it) > 1
      THEN UNION {re_from(SubSeq(it, 1, Len(it) \div 2), s, mid) :
                    mid \in {re_from(SubSeq(it, Len(it) \div 2 + 1, Len(it)), s, e)}}
      ELSE CASE it[1].t = "lit" ->
                  {q - Len(it[1].s) :
                      q \in {x \in e : /\ x - Len(it[1].s) >= 1
                                       /\ SubSeq(s, x - Len(it[1].s), x - 1) = it[1].s}}
             [] it[1].t = "rep" ->
                  UNION {{q - m : m \in it[1].lo..re_run_back(it[1].k, s, q, it[1].hi)} :
                           q \in e}
             [] it[1].t = "grp" -> re_from(it[1].body, s, e)
             [] it[1].t = "opt" -> re_from(it[1].body, s, e) \cup e
             [] it[1].t = "alt" ->
                  UNION {re_from(it[1].alts[a], s, e) : a \in 1..Len(it[1].alts)}
      : <<it, e>> \in {<<items, ends>>}}

\* the one element of a set of one element
The(S) == CHOOSE x \in S : TRUE

\* the match of items from pos that ends in ends, as the backtracking search
\* finds it: a repeat takes the most characters that let the rest match, an
\* optional part is taken if the rest then matches, and of the alternatives the
\* first that lets the rest match. pos is in re_from(items, s, ends).
RECURSIVE re_walk(_, _, _, _, _)
re_walk(items, s, pos, caps, ends) ==
    The({
      IF Len(it) = 0 THEN [pos |-> p, caps |-> c]
      ELSE IF Len(it) > 1
      THEN The(UNION {
             {IF mid # {} /\ half.pos \in mid
              THEN re_walk(SubSeq(it, Len(it) \div 2 + 1, Len(it)), s,
                           half.pos, half.caps, e)
              ELSE half
              : half \in {re_walk(SubSeq(it, 1, Len(it) \div 2), s, p, c, mid)}}
             : mid \in {re_from(SubSeq(it, Len(it) \div 2 + 1, Len(it)), s, e)}})
      ELSE CASE it[1].t = "lit" -> [pos |-> p + Len(it[1].s), caps |-> c]
             [] it[1].t = "rep" ->
                  The({[pos |-> p + (CHOOSE m \in fits : \A o \in fits : o <= m),
                        caps |-> c]
                       : fits \in {{m \in it[1].lo..re_run(it[1].k, s, p, it[1].hi) :
                                       p + m \in e}}})
             [] it[1].t = "grp" ->
                  The({[pos |-> in.pos,
                        caps |-> [in.caps EXCEPT
                                     ![it[1].g] = Str(SubSeq(s, p, in.pos - 1))]]
                       : in \in {re_walk(it[1].body, s, p, c, e)}})
             [] it[1].t = "opt" ->
                  IF p \in re_from(it[1].body, s, e)
                  THEN re_walk(it[1].body, s, p, c, e)
                  ELSE [pos |-> p, caps |-> c]
             [] it[1].t = "alt" ->
                  re_walk(it[1].alts[CHOOSE a \in 1..Len(it[1].alts) :
                                        /\ p \in re_from(it[1].alts[a], s, e)
                                        /\ \A b \in 1..(a - 1) :
                                              p \notin re_from(it[1].alts[b], s, e)],
                          s, p, c, e)
      : <<it, p, c, e>> \in {<<items, pos, caps, ends>>}})

\* re.match(pattern, s): anchored at the start, not at the end;
\* match.groups() has None for a group that took no part
re_match(pattern, s) ==
    The({IF 1 \in re_from(p, b, 1..(Len(b) + 1))
         THEN [ok |-> TRUE,
               groups |-> re_walk(p, b, 1, [g \in 1..re_groups(p) |-> None],
                                  1..(Len(b) + 1)).caps]
         ELSE NoMatch
         : <<p, b>> \in {<<pattern, s>>}})

-----------------------------------------------------------------------------
(* TransactionSMSDecoder: the fields of a result and the class attributes  *)

SMS_TYPE_FIELD == "sms_type"
TNX_TYPE_FIELD == "tnx_type"
SENDER_FIELD == "sender"
RECEIVER_FIELD == "receiver"
DATE_FIELD == "date"
REF_NO_FIELD == "ref_no"
AMOUNT_FIELD == "amount"

TransactionSMSDecoder ==
    [class_name |-> "TransactionSMSDecoder",
     patterns |-> <<>>,
     debit_keywords |-> <<"debited", "automatic payment of", " dr ", "withdrawn">>,
     credit_keywords |-> <<"received", "credited", " cr ", "deposited">>,
     legal_tnx_keywords |->
        <<"received", "debited", "credited", "withdrawn", "deposited", " cr ", " dr ">>,
     illegal_tnx_keywords |-> <<>>]

\* PaytmTransactionSMSDecoder.patterns
PaytmTransactionSMSDecoder_patterns ==
    [debit |-> <<
        [pattern |-> <<
            Grp(1, <<Plus(In(AZ \cup D09 \cup {"."}))>>), Lit(" is debited from your account "),
            Grp(2, <<Plus(In(AZ \cup D09))>>), Lit(" for debit card annual charges of "),
            Plus(In(AZ \cup D09 \cup {"."})), Lit(". remaining amount to be debited "),
            Plus(In(AZ \cup D09 \cup {"."})), Lit(". ref id "), Grp(3, <<Plus(In(D09))>>),
            Lit(" :ppbl")>>,
         attributes |-> [amount |-> 0, sender |-> 1, ref_no |-> 2]],
        [pattern |-> <<
            Lit("your automatic payment of "), Grp(1, <<Plus(In(AZ \cup D09 \cup {"."}))>>),
            Lit(" has been successfully executed on "), Grp(2, <<Plus(In(D09 \cup {"-"}))>>),
            Lit(" towards "), Grp(3, <<Plus(In(AZ \cup {" "}))>>), Lit(", "),
            Grp(4, <<Plus(In(D09))>>), Lit(". "), Plus(NotWordOr(Word)), Lit(" :ppbl")>>,
         attributes |-> [amount |-> 0, date |-> 1, receiver |-> 2, ref_no |-> 3]]
    >>,
     credit |-> <<
        [pattern |-> <<
            Lit("received "), Grp(1, <<Plus(In(AZ \cup D09 \cup {"."}))>>), Lit(" in your a/c "),
            Grp(2, <<Plus(In(AZ \cup D09))>>), Lit(" from "),
            Grp(3, <<Plus(In(AZ \cup D09 \cup {" "}))>>), Lit(" on "),
            Grp(4, <<Plus(In(D09 \cup {"-"}))>>), Lit(".ref no: "),
            Grp(5, <<Plus(In(AZ \cup D09))>>), Lit(". queries? call "), Grp(6, <<Plus(In(D09))>>),
            Lit(" :ppbl")>>,
         attributes |-> [amount |-> 0, receiver |-> 1, sender |-> 2, date |-> 3, ref_no |-> 4]],
        [pattern |-> <<
            Lit("received "), Grp(1, <<Plus(In(AZ \cup D09 \cup {"."}))>>), Lit(" in your a/c "),
            Grp(2, <<Plus(In(AZ \cup D09))>>), Lit(" from "),
            Grp(3, <<Plus(In(AZ \cup D09 \cup {" ", "/", "(", ")"}))>>), Lit(" on "),
            Grp(4, <<Plus(In(D09 \cup {"-"}))>>), Lit(". "),
            Grp(5, <<Alt(<<<<Lit("neft")>>, <<Lit("imps")>>>>)>>), Lit(" ref no: "),
            Grp(6, <<Plus(In(AZ \cup D09))>>), Lit(". "),
            OptSeq(<<Grp(7, <<Lit("queries? call "), Plus(In(D09)), Lit(" ")>>)>>), Lit(":ppbl")>>,
         attributes |-> [amount |-> 0, receiver |-> 1, sender |-> 2, date |-> 3, ref_no |-> 5]],
        [pattern |-> <<
            Grp(1, <<Plus(In(AZ \cup D09 \cup {"."}))>>),
            Lit(" has been credited back to your account "),
            Grp(2, <<Plus(In(D09 \cup {"x", " "}))>>), Lit(". upi ref no: "),
            Grp(3, <<Plus(In(D09))>>), Lit(" :ppbl")>>,
         attributes |-> [amount |-> 0, receiver |-> 1, ref_no |-> 2]],
        [pattern |-> <<
            Grp(1, <<Plus(In(AZ \cup D09 \cup {"."}))>>), Lit(" received from "),
            Grp(2, <<Plus(In(AZ \cup D09 \cup {" "}))>>), Lit(" in your paytm payments bank a/c "),
            Grp(3, <<Plus(In(AZ \cup D09))>>), Lit(". upi ref: "), Grp(4, <<Plus(In(D09))>>),
            Lit(" avl bal: "), Plus(In(AZ \cup D09 \cup {"."})), Lit(". :ppbl")>>,
         attributes |-> [amount |-> 0, sender |-> 1, receiver |-> 2, ref_no |-> 3]],
        [pattern |-> <<
            Grp(1, <<Plus(In(AZ \cup D09 \cup {" ", ".", ","}))>>),
            Lit(" deposited in your paytm wallet linked with mobile no "), Star(Dot)>>,
         attributes |-> [amount |-> 0]]
    >>]

PaytmTransactionSMSDecoder ==
    [TransactionSMSDecoder EXCEPT
        !.class_name = "PaytmTransactionSMSDecoder",
        !.patterns = PaytmTransactionSMSDecoder_patterns,
        !.legal_tnx_keywords = TransactionSMSDecoder.legal_tnx_keywords \o <<"successfully executed">>,
        !.illegal_tnx_keywords = <<"will be">>]

\* IcicibTransactionSMSDecoder.patterns
IcicibTransactionSMSDecoder_patterns ==
    [credit |-> <<
        [pattern |-> <<
            Lit("your icici bank acct "), Grp(1, <<Plus(In(D09 \cup {"x"}))>>),
            Lit(" is credited with "), Grp(2, <<Plus(In(AZ \cup D09 \cup {".", " "}))>>),
            Lit(" on "), Grp(3, <<Plus(In(AZ \cup D09 \cup {"-"}))>>), Lit(" by acct "),
            Grp(4, <<Plus(In(D09 \cup {"x"}))>>), Lit(". imps ref. no. "),
            Grp(5, <<Plus(In(D09))>>), Lit(".")>>,
         attributes |-> [amount |-> 1, receiver |-> 0, sender |-> 3, date |-> 2, ref_no |-> 4]],
        [pattern |-> <<
            Lit("dear customer, acct "), Grp(1, <<Plus(In(D09 \cup {"x"}))>>),
            Lit(" is credited with "), Grp(2, <<Plus(In(AZ \cup D09 \cup {".", " "}))>>),
            Lit(" on "), Grp(3, <<Plus(In(AZ \cup D09 \cup {"-"}))>>), Lit(" from "),
            Grp(4, <<Plus(In(AZ \cup D09 \cup {" ", "."}))>>), Lit(". upi:"),
            Grp(5, <<Plus(In(D09))>>), Lit("-icici bank.")>>,
         attributes |-> [amount |-> 1, receiver |-> 0, date |-> 2, sender |-> 3, ref_no |-> 4]],
        [pattern |-> <<
            Lit("icici bank account "), Grp(1, <<Plus(In(D09 \cup {"x"}))>>),
            Lit(" is credited with "), Grp(2, <<Plus(In(AZ \cup D09 \cup {".", " ", ","}))>>),
            Lit(" on "), Grp(3, <<Plus(In(AZ \cup D09 \cup {"-"}))>>),
            Lit(" by account linked to mobile number "), Plus(Dot), Lit(". imps ref. no. "),
            Grp(4, <<Plus(In(D09))>>), Lit(".")>>,
         attributes |-> [amount |-> 1, receiver |-> 0, date |-> 2, ref_no |-> 3]],
        [pattern |-> <<
            Lit("dear customer, your icici bank account "), Grp(1, <<Plus(In(D09 \cup {"x"}))>>),
            Lit(" has been credited with "),
            Grp(2, <<Plus(In(AZ \cup D09 \cup {".", " ", ","}))>>), Lit(" on "),
            Grp(3, <<Plus(In(D09 \cup AZ \cup {"-"}))>>), Lit(". info:"), Plus(Dot),
            Lit(". the available balance is "), Plus(Dot)>>,
         attributes |-> [amount |-> 1, receiver |-> 0, date |-> 2]],
        [pattern |-> <<
            Lit("your icici bank acct "), Grp(1, <<Plus(In(D09 \cup {"x"}))>>),
            Lit(" is credited with "), Grp(2, <<Plus(In(AZ \cup D09 \cup {" ", ".", ","}))>>),
            Lit(" on "), Grp(3, <<Plus(In(AZ \cup D09 \cup {"-"}))>>), Lit(" by acct "),
            Grp(4, <<Plus(In(D09 \cup {"x"}))>>), Lit(". imps ref. no. "),
            Grp(5, <<Plus(In(D09))>>), Lit(".")>>,
         attributes |-> [amount |-> 1, receiver |-> 0, date |-> 2, sender |-> 3, ref_no |-> 4]],
        [pattern |-> <<
            Lit("dear customer, payment of "),
            Grp(1, <<Plus(In(AZ \cup D09 \cup {" ", ".", ","}))>>),
            Lit(" has been received on your icici bank credit card account "),
            Grp(2, <<Plus(In(D09 \cup {"x"}))>>), Lit(" on "),
            Grp(3, <<Plus(In(AZ \cup D09 \cup {"-"}))>>), Lit(".thank you.")>>,
         attributes |-> [amount |-> 0, receiver |-> 1, date |-> 2]],
        [pattern |-> <<
            Lit("dear customer, payment of "),
            Grp(1, <<Plus(In(AZ \cup D09 \cup {" ", ".", ","}))>>),
            Lit(" has been received towards your icici bank credit card "),
            Grp(2, <<Plus(In(D09 \cup {"x"}))>>), Lit(" on "),
            Grp(3, <<Plus(In(D09 \cup AZ \cup {"-"}))>>), Lit(" through upi. thank you.")>>,
         attributes |-> [amount |-> 0, receiver |-> 1, date |-> 2]],
        [pattern |-> <<
            Lit("dear customer, account "), Grp(1, <<Plus(In(D09 \cup {"x"}))>>),
            Lit(" is credited with "), Grp(2, <<Plus(In(AZ \cup D09 \cup {" ", ".", ","}))>>),
            Lit(" on "), Grp(3, <<Plus(In(AZ \cup D09 \cup {"-"}))>>), Lit(" from "),
            Grp(4, <<Plus(NotWordOr(AZ \cup D09 \cup {" "}))>>), Lit(". upi ref. no. "),
            Grp(5, <<Plus(In(D09))>>), Lit(" - icici bank.")>>,
         attributes |-> [receiver |-> 0, amount |-> 1, date |-> 2, sender |-> 3, ref_no |-> 4]]
    >>,
     debit |-> <<
        [pattern |-> <<
            Lit("dear customer, icici bank fastag linked vehicle no. "),
            Grp(1, <<Plus(In(AZ \cup D09))>>), Lit(" has been debited with "),
            Grp(2, <<Plus(In(AZ \cup D09 \cup {".", " "}))>>), Lit(" on "),
            Grp(3, <<Plus(In(D09 \cup {"-", " ", ":"}))>>),
            Lit(" for toll charges with trip number "), Grp(4, <<Plus(In(D09))>>), Lit(" at "),
            Plus(In(AZ \cup D09 \cup {" ", "."})), Lit(" on "),
            Grp(5, <<Plus(In(D09 \cup {"-", " ", ":"}))>>), Lit(". avl. bal. is "),
            Plus(In(AZ \cup D09 \cup {" ", "-", "."})), Lit(". call "), Plus(In(D09)),
            Lit(" in case of dispute.")>>,
         attributes |-> [amount |-> 1, receiver |-> 0, date |-> 2, ref_no |-> 3]],
        [pattern |-> <<
            Lit("icici bank acct "), Grp(1, <<Plus(In(D09 \cup {"x"}))>>), Lit(" debited for "),
            Grp(2, <<Plus(In(AZ \cup D09 \cup {" ", "."}))>>), Lit(" on "),
            Grp(3, <<Plus(In(AZ \cup D09 \cup {"-"}))>>), Lit("; "),
            Grp(4, <<Plus(In(AZ \cup D09 \cup {" ", "."}))>>), Lit(" credited. upi:"),
            Grp(5, <<Plus(In(D09))>>), Lit(". call "), Plus(Dot), Lit(" for dispute. sms block "),
            Plus(Dot), Lit(" to "), Plus(Dot), Lit(".")>>,
         attributes |-> [amount |-> 1, sender |-> 0, receiver |-> 3, date |-> 2, ref_no |-> 4]],
        [pattern |-> <<
            Lit("icici bank acct "), Grp(1, <<Plus(In(D09 \cup {"x"}))>>), Lit(" debited "),
            Grp(2, <<Alt(<<<<Lit("with")>>, <<Lit("for")>>>>)>>), Lit(" "),
            Grp(3, <<Plus(In(AZ \cup D09 \cup {".", " "}))>>), Lit(" on "),
            Grp(4, <<Plus(In(AZ \cup D09 \cup {"-"}))>>),
            Grp(5, <<Alt(<<<<Lit(".")>>, <<Lit(";")>>, <<Lit(",")>>, <<Lit(" &")>>>>)>>), Lit(" "),
            Grp(6, <<Plus(NotWordOr(AZ \cup D09))>>), Lit(" credited."), Opt(In({" "})),
            Lit("upi:"), Grp(7, <<Plus(In(D09))>>), Lit("."), Star(Dot)>>,
         attributes |-> [amount |-> 2, sender |-> 0, receiver |-> 5, date |-> 3, ref_no |-> 6]],
        [pattern |-> <<
            Lit("icici bank acc "), Grp(1, <<Plus(In(D09 \cup {"x"}))>>), Lit(" debited with "),
            Grp(2, <<Plus(In(AZ \cup D09 \cup {",", ".", " "}))>>), Lit(" on "),
            Grp(3, <<Plus(In(AZ \cup D09 \cup {"-"}))>>), Lit(". info:"), Plus(Dot),
            Lit(".avb bal: "), Plus(In(AZ \cup D09 \cup {".", ","})), Lit(". for dispute,call "),
            Plus(Dot), Lit(" or sms block "), Plus(Dot), Lit(" to "), Plus(Dot)>>,
         attributes |-> [amount |-> 1, sender |-> 0, date |-> 2]],
        [pattern |-> <<
            Lit("dear customer, icici bank "),
            Grp(1, <<Lit("acc"), Alt(<<<<Lit("ount")>>, <<Lit("t")>>>>)>>), Lit(" "),
            Grp(2, <<Plus(In(D09 \cup {"x"}))>>), OptSeq(<<Grp(3, <<Lit(" is")>>)>>),
            Lit(" debited with "), Grp(4, <<Plus(In(AZ \cup D09 \cup {".", " ", ","}))>>),
            Lit(" on "), Grp(5, <<Plus(In(AZ \cup D09 \cup {"-"}))>>), Lit("."), Star(Dot)>>,
         attributes |-> [amount |-> 3, sender |-> 1, date |-> 4]],
        [pattern |-> <<
            Lit("dear customer, "), Grp(1, <<Plus(In(AZ \cup D09 \cup {".", ",", " "}))>>),
            Lit(" is debited on icici bank credit card "), Grp(2, <<Plus(In(D09 \cup {"x"}))>>),
            Lit(" on "), Grp(3, <<Plus(In(AZ \cup D09 \cup {"-"}))>>), Lit("."), Plus(Dot)>>,
         attributes |-> [amount |-> 0, sender |-> 1, date |-> 2]]
    >>]

IcicibTransactionSMSDecoder ==
    [TransactionSMSDecoder EXCEPT
        !.class_name = "IcicibTransactionSMSDecoder",
        !.patterns = IcicibTransactionSMSDecoder_patterns,
        !.illegal_tnx_keywords = <<"requested", "will be", "delivered">>]

\* KotakbTransactionSMSDecoder.patterns
KotakbTransactionSMSDecoder_patterns ==
    [credit |-> <<
        [pattern |-> <<
            Grp(1, <<Plus(In(AZ \cup D09 \cup {"."}))>>),
            Lit(" is credited in your kotak bank a/c "), Grp(2, <<Plus(In(D09 \cup {"x"}))>>),
            Lit(" by upi id "), Grp(3, <<Plus(NotWordOr(Word))>>), Lit(" on "),
            Grp(4, <<Plus(In(D09 \cup {"-"}))>>), Lit(" (upi ref no "), Grp(5, <<Plus(In(D09))>>),
            Lit(")."), Plus(Dot)>>,
         attributes |-> [amount |-> 0, receiver |-> 1, sender |-> 2, date |-> 3, ref_no |-> 4]],
        [pattern |-> <<
            Lit("thank you for "), Grp(1, <<Alt(<<<<Lit("the")>>, <<Lit("your")>>>>)>>),
            Lit(" payment of "), Grp(2, <<Plus(In(AZ \cup D09 \cup {".", " "}))>>), Lit(" for "),
            Plus(Dot), Lit(" "), Grp(3, <<Plus(In(D09 \cup {"x"}))>>), Lit(" received "),
            Plus(Dot), Lit(" on "), Grp(4, <<Plus(In(AZ \cup D09 \cup {"-"}))>>), Star(Dot)>>,
         attributes |-> [amount |-> 1, receiver |-> 2, date |-> 3]],
        [pattern |-> <<
            Grp(1, <<Plus(In(AZ \cup D09 \cup {"."}))>>),
            Lit(" is credited to kotak bank a/c no. "), Grp(2, <<Plus(In(D09 \cup {"x"}))>>),
            Lit(" on "), Grp(3, <<Plus(In(AZ \cup D09 \cup {"-"}))>>),
            Lit(" as a reversal of debit transaction (upi ref no "), Grp(4, <<Plus(In(D09))>>),
            Lit(")."), Star(Dot)>>,
         attributes |-> [amount |-> 0, receiver |-> 1, date |-> 2, ref_no |-> 3]],
        [pattern |-> <<
            Grp(1, <<Plus(In(AZ \cup D09 \cup {" ", ".", ","}))>>), Opt(In({" "})),
            Lit("credited to a/c "), Grp(2, <<Plus(In(D09 \cup {"x"}))>>), Opt(In({" "})),
            Lit("via neft from "), Grp(3, <<Plus(In(AZ \cup D09 \cup {" "}))>>), Opt(In({" "})),
            Lit("- utr ref "), Grp(4, <<Plus(In(AZ \cup D09))>>), Lit(";"), Star(Dot)>>,
         attributes |-> [amount |-> 0, receiver |-> 1, sender |-> 2, ref_no |-> 3]],
        [pattern |-> <<
            Grp(1, <<Plus(In(AZ \cup D09 \cup {".", ","}))>>), Lit(" cr on "),
            Grp(2, <<Plus(In(AZ \cup D09 \cup {"-"}))>>), Lit(" to kotak bank ac "),
            Grp(3, <<Plus(In(D09 \cup {"x"}))>>), Lit(" by ac linked to mobile "), Plus(Dot),
            Lit("."), Opt(In({" "})), Lit("utr"), Opt(In({" "})), Lit("-"), Opt(In({" "})),
            Grp(4, <<Plus(In(AZ \cup D09))>>), Lit("."), Star(Dot)>>,
         attributes |-> [amount |-> 0, date |-> 1, receiver |-> 2, ref_no |-> 3]]
    >>,
     debit |-> <<
        [pattern |-> <<
            Grp(1, <<Plus(In(AZ \cup D09 \cup {"."}))>>), Lit(" is debited from kotak bank a/c "),
            Grp(2, <<Plus(In(D09 \cup {"x"}))>>), Lit(" to "), Grp(3, <<Plus(NotWordOr(Word))>>),
            Lit(" on "), Grp(4, <<Plus(In(AZ \cup D09 \cup {"-"}))>>), Lit("."), Plus(Dot)>>,
         attributes |-> [amount |-> 0, sender |-> 1, receiver |-> 2, date |-> 3]],
        [pattern |-> <<
            Grp(1, <<Plus(In(AZ \cup D09 \cup {".", " ", ","}))>>),
            Lit(" is debited from kotak bank a/c/ credit card no"), One(Dot), Lit(" "),
            Grp(2, <<Plus(In(D09 \cup {"x"}))>>), Lit(" for "),
            Grp(3, <<Plus(In(AZ \cup D09 \cup {" ", "(", ")"}))>>), Lit(" on "),
            Grp(4, <<Plus(In(AZ \cup D09 \cup {"-", " ", ":"}))>>), Lit(". ref no: "),
            Grp(5, <<Plus(In(AZ \cup D09))>>), Lit("."), Star(Dot)>>,
         attributes |-> [amount |-> 0, sender |-> 1, receiver |-> 2, date |-> 3, ref_no |-> 4]],
        [pattern |-> <<
            Grp(1, <<Plus(In(AZ \cup D09 \cup {".", ",", " "}))>>), Lit(" dr frm kotak bank ac "),
            Grp(2, <<Plus(In(D09 \cup {"x"}))>>), Lit(" to ac "),
            Grp(3, <<Plus(In(D09 \cup {"x"}))>>), Lit(". utr"), Opt(In({" "})), Lit("-"),
            Opt(In({" "})), Grp(4, <<Plus(In(AZ \cup D09))>>), Lit("."), Star(Dot)>>,
         attributes |-> [amount |-> 0, sender |-> 1, receiver |-> 2, ref_no |-> 3]],
        [pattern |-> <<
            Grp(1, <<Plus(In(AZ \cup D09 \cup {".", ",", " "}))>>), Lit(" dr frm kotak bank ac "),
            Grp(2, <<Plus(In(D09 \cup {"x"}))>>), Lit(" to "),
            Grp(3, <<Plus(In(AZ \cup D09 \cup {" "}))>>), Lit(" on "),
            Grp(4, <<Plus(In(AZ \cup D09 \cup {"-"}))>>), Lit(" utr"), Opt(In({" "})), Lit("-"),
            Opt(In({" "})), Grp(5, <<Plus(In(AZ \cup D09))>>), Lit("."), Star(Dot)>>,
         attributes |-> [amount |-> 0, sender |-> 1, receiver |-> 2, date |-> 3, ref_no |-> 4]]
    >>]

KotakbTransactionSMSDecoder ==
    [TransactionSMSDecoder EXCEPT
        !.class_name = "KotakbTransactionSMSDecoder",
        !.patterns = KotakbTransactionSMSDecoder_patterns,
        !.illegal_tnx_keywords = <<"requested", "will be", "delivered", "earn">>]

\* IndbnkTransactionSMSDecoder.patterns
IndbnkTransactionSMSDecoder_patterns ==
    [credit |-> <<
        [pattern |-> <<
            Lit("your a/c"), One(Dot), Lit(" "), Grp(1, <<Plus(In(D09 \cup {"x"}))>>),
            Lit(" is credited by "), Grp(2, <<Plus(In(AZ \cup D09 \cup {".", " ", ","}))>>),
            Lit(" on "), Grp(3, <<Plus(In(D09 \cup {"-"}))>>), Lit(" by a/c linked to mobile "),
            Plus(Dot), Lit(" (imps ref no"), One(Dot), Lit(" "), Grp(4, <<Plus(In(AZ \cup D09))>>),
            Lit(")."), Star(Dot)>>,
         attributes |-> [amount |-> 1, receiver |-> 0, date |-> 2, ref_no |-> 3]],
        [pattern |-> <<
            Lit("your a/c "), Grp(1, <<Plus(In(D09 \cup {"x"}))>>), Opt(In({" "})),
            Lit(" is credited by "), Grp(2, <<Plus(In(AZ \cup D09 \cup {".", ",", " "}))>>),
            Lit(" "), Star(Dot), Lit(" as on:"), Grp(3, <<Plus(In(D09 \cup {"-", "/"}))>>),
            Star(Dot)>>,
         attributes |-> [receiver |-> 0, amount |-> 1, date |-> 2]]
    >>,
     debit |-> <<
        [pattern |-> <<
            Lit("your vpa "), Plus(Dot), Lit(" linked to indian bank a/c no. "),
            Grp(1, <<Plus(In(D09 \cup {"x"}))>>), Lit(" is debited for "),
            Grp(2, <<Plus(In(AZ \cup D09 \cup {".", " ", ","}))>>), Lit(" and credited to "),
            Grp(3, <<Plus(NotWordOr(AZ \cup D09))>>), Lit(" (upi ref no "),
            Grp(4, <<Plus(In(AZ \cup D09))>>), Lit(")."), Star(Dot)>>,
         attributes |-> [amount |-> 1, sender |-> 0, receiver |-> 2, ref_no |-> 3]],
        [pattern |-> <<
            Grp(1, <<Plus(In(AZ \cup D09 \cup {".", ",", " "}))>>), Lit(" spent on "), Plus(Dot),
            Lit(" using "), Plus(Dot), Lit(" on "), Grp(2, <<Plus(In(D09 \cup {"/", " ", ":"}))>>),
            Lit(" at "), Grp(3, <<Plus(NotWordOr(AZ \cup D09 \cup {" "}))>>), Lit(" from ac:"),
            Grp(4, <<Plus(In(D09 \cup {"x"}))>>), Lit("."), Star(Dot)>>,
         attributes |-> [amount |-> 0, date |-> 1, receiver |-> 2, sender |-> 3]]
    >>]

IndbnkTransactionSMSDecoder ==
    [TransactionSMSDecoder EXCEPT
        !.class_name = "IndbnkTransactionSMSDecoder",
        !.patterns = IndbnkTransactionSMSDecoder_patterns,
        !.debit_keywords = TransactionSMSDecoder.debit_keywords \o <<"spent on">>]

\* SBIInbTransactionSMSDecoder.patterns
SBIInbTransactionSMSDecoder_patterns ==
    [credit |-> <<
        [pattern |-> <<
            Lit("dear customer, your a/c no. "), Grp(1, <<Plus(In(D09 \cup {"x"}))>>),
            Lit(" is credited by "), Grp(2, <<Plus(In(AZ \cup D09 \cup {".", " ", ","}))>>),
            Lit(" on "), Grp(3, <<Plus(In(D09 \cup {"-"}))>>), Lit(" by a/c linked to mobile "),
            Plus(Dot), Opt(In({" "})), Lit("-"), Opt(In({" "})),
            Grp(4, <<Plus(In(AZ \cup D09 \cup {" "}))>>), Opt(In({" "})), Lit("(imps ref no "),
            Grp(5, <<Plus(In(D09))>>), Lit(")."), Star(Dot)>>,
         attributes |-> [amount |-> 1, receiver |-> 0, sender |-> 3, date |-> 2, ref_no |-> 4]]
    >>]

SBIInbTransactionSMSDecoder ==
    [TransactionSMSDecoder EXCEPT
        !.class_name = "SBIInbTransactionSMSDecoder",
        !.patterns = SBIInbTransactionSMSDecoder_patterns]

\* AtmSBITransactionSMSDecoder.patterns
AtmSBITransactionSMSDecoder_patterns ==
    [debit |-> <<
        [pattern |-> <<
            Lit("dear sbi customer, "), Grp(1, <<Plus(In(AZ \cup D09 \cup {".", " ", ","}))>>),
            Lit(" withdrawn at "), Plus(Dot), Lit(" from a/c"), Opt(In({" "})),
            Grp(2, <<Plus(In(D09 \cup {"x"}))>>), Lit(" on "),
            Grp(3, <<Plus(In(AZ \cup D09 \cup {"-", "/"}))>>), Lit(" transaction number "),
            Grp(4, <<Plus(In(AZ \cup D09))>>), Lit("."), Star(Dot)>>,
         attributes |-> [amount |-> 0, sender |-> 1, date |-> 2, ref_no |-> 3]],
        [pattern |-> <<
            Lit("dear customer, transaction number "), Grp(1, <<Plus(In(AZ \cup D09))>>),
            Lit(" for "), Grp(2, <<Plus(In(AZ \cup D09 \cup {".", ",", " "}))>>),
            Lit(" by sbi debit card "), Grp(3, <<Plus(In(D09 \cup {"x"}))>>),
            OptSeq(<<Grp(4, <<Lit(" done")>>)>>), Lit(" at "), Plus(Dot), Lit(" on "),
            Grp(5, <<Plus(In(AZ \cup D09))>>), Star(Dot)>>,
         attributes |-> [ref_no |-> 0, amount |-> 1, sender |-> 2, date |-> 4]]
    >>]

AtmSBITransactionSMSDecoder ==
    [TransactionSMSDecoder EXCEPT
        !.class_name = "AtmSBITransactionSMSDecoder",
        !.patterns = AtmSBITransactionSMSDecoder_patterns,
        !.debit_keywords = TransactionSMSDecoder.debit_keywords \o <<"dear customer, transaction number">>,
        !.legal_tnx_keywords = TransactionSMSDecoder.legal_tnx_keywords \o <<"dear customer, transaction number">>]

SPRCRDTransactionSMSDecoder ==
    [TransactionSMSDecoder EXCEPT
        !.class_name = "SPRCRDTransactionSMSDecoder"]

SBIDGTTransactionSMSDecoder ==
    [TransactionSMSDecoder EXCEPT
        !.class_name = "SBIDGTTransactionSMSDecoder"]

AxisBkTransactionSMSDecoder ==
    [TransactionSMSDecoder EXCEPT
        !.class_name = "AxisBkTransactionSMSDecoder",
        !.illegal_tnx_keywords = <<"requested">>]

RBISayTransactionSMSDecoder ==
    [TransactionSMSDecoder EXCEPT
        !.class_name = "RBISayTransactionSMSDecoder",
        !.illegal_tnx_keywords = <<"failed digital transaction">>]

\* HDFCBkTransactionSMSDecoder.patterns
HDFCBkTransactionSMSDecoder_patterns ==
    [credit |-> <<
        [pattern |-> <<
            Lit("update: your a/c "), Grp(1, <<Plus(In(D09 \cup {"x"}))>>), Lit(" credited with "),
            Grp(2, <<Plus(In(AZ \cup D09 \cup {" ", ".", ","}))>>), Lit(" on "),
            Grp(3, <<Plus(In(D09 \cup AZ \cup {"-", "/"}))>>), Lit(" by a/c linked to mobile no "),
            Plus(Dot), Lit(" (imps ref no"), One(Dot), Lit(" "), Grp(4, <<Plus(In(AZ \cup D09))>>),
            Lit(")"), Star(Dot)>>,
         attributes |-> [receiver |-> 0, amount |-> 1, date |-> 2, ref_no |-> 3]],
        [pattern |-> <<
            Lit("update"), Grp(1, <<One(In({":", "!"}))>>), Lit(" "),
            Grp(2, <<Plus(In(AZ \cup D09 \cup {" ", ".", ","}))>>), Lit(" deposited in"),
            OptSeq(<<Grp(3, <<Lit(" hdfc bank")>>)>>), Lit(" a/c "),
            Grp(4, <<Plus(In(D09 \cup {"x"}))>>), Lit(" on "),
            Grp(5, <<Plus(In(D09 \cup AZ \cup {"-", "/"}))>>), Lit(" for "), Star(Dot)>>,
         attributes |-> [amount |-> 1, receiver |-> 3, date |-> 4]],
        [pattern |-> <<
            Lit("hdfc bank: "), Grp(1, <<Plus(In(AZ \cup D09 \cup {" ", ".", ","}))>>),
            Lit(" credited to a/c "), Grp(2, <<Plus(In(D09 \cup {"x", "*"}))>>), Lit(" on "),
            Grp(3, <<Plus(In(AZ \cup D09 \cup {"-", " ", ":"}))>>), Lit(" by a/c linked to vpa "),
            Grp(4, <<Plus(NotWordOr(AZ \cup D09 \cup {" "}))>>), Lit(" (upi ref no  "),
            Grp(5, <<Plus(In(D09))>>), Lit(").")>>,
         attributes |-> [amount |-> 0, receiver |-> 1, date |-> 2, sender |-> 3, ref_no |-> 4]],
        [pattern |-> <<
            Lit("alert: a/c "), Grp(1, <<Plus(In(D09 \cup {"x"}))>>), Lit(" credited with "),
            Grp(2, <<Plus(In(AZ \cup D09 \cup {" ", ".", ","}))>>), Lit(" on "),
            Grp(3, <<Plus(In(AZ \cup D09 \cup {"/", "."}))>>), Lit(" at "), Star(Dot)>>,
         attributes |-> [amount |-> 1, receiver |-> 0, date |-> 2]],
        [pattern |-> <<
            Lit("received "), Star(In({" "})), Lit("hdfc bank upi payment:"),
            Grp(1, <<Plus(In(AZ \cup D09 \cup {".", ",", " "}))>>), Lit(" from "),
            Grp(2, <<Plus(NotWordOr(AZ \cup D09 \cup {" "}))>>), Lit(" on "),
            Grp(3, <<Plus(In(D09 \cup {":", "-", " ", "/"}))>>), Lit("|transaction id:"),
            Grp(4, <<Plus(In(D09))>>), Lit("."), Star(Dot)>>,
         attributes |-> [amount |-> 0, sender |-> 1, date |-> 2, ref_no |-> 3]]
    >>,
     debit |-> <<
        [pattern |-> <<
            Lit("hdfc bank: "), Grp(1, <<Plus(In(AZ \cup D09 \cup {" ", ".", ","}))>>),
            Lit(" debited from a/c "), Grp(2, <<Plus(In(D09 \cup {"x", "*"}))>>), Lit(" on "),
            Grp(3, <<Plus(In(D09 \cup AZ \cup {"-", "/"}))>>), Lit(" to "),
            Grp(4, <<Alt(<<<<Lit("vpa")>>, <<Lit("a/c")>>>>)>>), Lit(" "),
            Grp(5, <<Plus(NotWordOr(AZ \cup D09 \cup {"*", " "}))>>), Opt(In({" "})),
            Lit("(upi ref no"), Opt(In({"."})), Lit(" "), Grp(6, <<Plus(In(D09))>>), Lit(")."),
            Star(Dot)>>,
         attributes |-> [amount |-> 0, sender |-> 1, receiver |-> 4, date |-> 2, ref_no |-> 5]],
        [pattern |-> <<
            Lit("update: "), Grp(1, <<Plus(In(AZ \cup D09 \cup {".", ",", " "}))>>),
            Lit(" debited from hdfc bank "), Grp(2, <<Plus(In(D09 \cup {"x"}))>>), Lit(" on "),
            Grp(3, <<Plus(In(AZ \cup D09 \cup {"-", "/"}))>>), Lit("."), Star(Dot)>>,
         attributes |-> [amount |-> 0, sender |-> 1, date |-> 2]],
        [pattern |-> <<
            Lit("update: "), Grp(1, <<Plus(In(AZ \cup D09 \cup {" ", ",", "."}))>>),
            Lit(" debited from a/c "), Grp(2, <<Plus(In(D09 \cup {"x"}))>>), Lit(" on "),
            Grp(3, <<Plus(In(AZ \cup D09 \cup {"-", "/"}))>>), Lit("."), Star(Dot)>>,
         attributes |-> [amount |-> 0, sender |-> 1, date |-> 2]],
        [pattern |-> <<
            Lit("alert:you've withdrawn "), Grp(1, <<Plus(In(AZ \cup D09 \cup {".", ",", " "}))>>),
            Lit(" via debit card "), Grp(2, <<Plus(In(D09 \cup {"x"}))>>), Lit(" at "),
            Grp(3, <<Plus(NotWordOr(AZ \cup D09 \cup {" "}))>>), Lit(" on "),
            Grp(4, <<Plus(In(D09 \cup {"-", ":"}))>>), Lit("."), Star(Dot)>>,
         attributes |-> [amount |-> 0, sender |-> 1, receiver |-> 2, date |-> 3]],
        [pattern |-> <<
            Grp(1, <<Plus(In(AZ \cup D09 \cup {".", ",", " "}))>>), Lit(" debited from a/c "),
            Grp(2, <<Plus(In(D09 \cup {"x", "*"}))>>), Lit(" on "),
            Grp(3, <<Plus(In(D09 \cup {"-", "/"}))>>), Lit(" to vpa "),
            Grp(4, <<Plus(NotWordOr(AZ \cup D09 \cup {" "}))>>), Opt(In({" "})),
            Lit("(upi ref no"), Opt(In({"."})), Lit(" "), Grp(5, <<Plus(In(D09))>>), Lit(")."),
            Star(Dot)>>,
         attributes |-> [amount |-> 0, sender |-> 1, date |-> 2, receiver |-> 3, ref_no |-> 4]]
    >>]

HDFCBkTransactionSMSDecoder ==
    [TransactionSMSDecoder EXCEPT
        !.class_name = "HDFCBkTransactionSMSDecoder",
        !.patterns = HDFCBkTransactionSMSDecoder_patterns,
        !.illegal_tnx_keywords = TransactionSMSDecoder.illegal_tnx_keywords \o <<"request", "delivered">>]

SBYONOTransactionSMSDecoder ==
    [TransactionSMSDecoder EXCEPT
        !.class_name = "SBYONOTransactionSMSDecoder"]

HDFCBNTransactionSMSDecoder ==
    [TransactionSMSDecoder EXCEPT
        !.class_name = "HDFCBNTransactionSMSDecoder",
        !.illegal_tnx_keywords = TransactionSMSDecoder.illegal_tnx_keywords \o <<"interest rate">>]

\* SBIUpiTransactionSMSDecoder.patterns
SBIUpiTransactionSMSDecoder_patterns ==
    [debit |-> <<
        [pattern |-> <<
            Grp(1, <<Plus(In(AZ \cup D09 \cup {".", ",", " "}))>>), Lit(" debited"),
            Grp(2, <<One(In({"@", "!"}))>>), Lit("sbi upi frm a/c"), Opt(In({" "})),
            Grp(3, <<Plus(In(D09 \cup {"x"}))>>), Lit(" on "), Grp(4, <<Plus(In(AZ \cup D09))>>),
            Lit(" ref no "), Grp(5, <<Plus(In(D09))>>), Lit("."), Star(Dot)>>,
         attributes |-> [amount |-> 0, sender |-> 2, date |-> 3, ref_no |-> 4]],
        [pattern |-> <<
            Star(Dot), Lit("a/c "), Grp(1, <<Plus(In(D09 \cup {"x"}))>>), Star(Dot),
            Lit("debited by "), Grp(2, <<Plus(In(AZ \cup D09 \cup {".", ",", " "}))>>), Lit(" on"),
            OptSeq(<<Grp(3, <<Lit(" date")>>)>>), Lit(" "), Grp(4, <<Plus(In(AZ \cup D09))>>),
            Lit(" transfer to "), Grp(5, <<Plus(NotWordOr(AZ \cup D09 \cup {" "}))>>),
            Lit(" ref no "), Grp(6, <<Plus(In(D09))>>), Lit("."), Star(Dot)>>,
         attributes |-> [sender |-> 0, amount |-> 1, date |-> 3, receiver |-> 4, ref_no |-> 5]]
    >>,
     credit |-> <<
        [pattern |-> <<
            Lit("dear sbi upi user, your a/c"), Opt(In({" "})),
            Grp(1, <<Plus(In(D09 \cup {"x"}))>>), Lit(" credited "),
            Grp(2, <<Alt(<<<<Lit("by")>>, <<Lit("with")>>>>)>>), Lit(" "),
            Grp(3, <<Plus(In(AZ \cup D09 \cup {".", ",", " "}))>>), Lit(" on "),
            Grp(4, <<Plus(In(AZ \cup D09))>>), Lit(" "), Star(Dot), Lit("(ref no "),
            Grp(5, <<Plus(In(D09))>>), Lit(")")>>,
         attributes |-> [receiver |-> 0, amount |-> 2, date |-> 3, ref_no |-> 4]]
    >>]

SBIUpiTransactionSMSDecoder ==
    [TransactionSMSDecoder EXCEPT
        !.class_name = "SBIUpiTransactionSMSDecoder",
        !.patterns = SBIUpiTransactionSMSDecoder_patterns]

\* SBIPsgTransactionSMSDecoder.patterns
SBIPsgTransactionSMSDecoder_patterns ==
    [credit |-> <<
        [pattern |-> <<
            Lit("dear customer, "), Grp(1, <<Plus(In(AZ \cup D09 \cup {" ", ".", ","}))>>),
            Lit(" credited to your a/c no "), Grp(2, <<Plus(In(D09 \cup {"x"}))>>), Lit(" on "),
            Grp(3, <<Plus(In(D09 \cup {"/"}))>>), Star(Dot)>>,
         attributes |-> [amount |-> 0, receiver |-> 1, date |-> 2]]
    >>]

SBIPsgTransactionSMSDecoder ==
    [TransactionSMSDecoder EXCEPT
        !.class_name = "SBIPsgTransactionSMSDecoder",
        !.patterns = SBIPsgTransactionSMSDecoder_patterns,
        !.illegal_tnx_keywords = TransactionSMSDecoder.illegal_tnx_keywords \o <<"avail bal in a/c">>]

\* CBSSBITransactionSMSDecoder.patterns
CBSSBITransactionSMSDecoder_patterns ==
    [credit |-> <<
        [pattern |-> <<
            Lit("your a"), Opt(In({"/"})), Lit("c "), Grp(1, <<Plus(In(D09 \cup {"x"}))>>),
            Lit(" credited "), Grp(2, <<Plus(In(AZ \cup D09 \cup {".", ",", " "}))>>), Lit(" on "),
            Grp(3, <<Plus(In(D09 \cup {"/"}))>>), Star(Dot)>>,
         attributes |-> [receiver |-> 0, amount |-> 1, date |-> 2]],
        [pattern |-> <<
            Lit("dear customer, "), Plus(Dot), Lit(" of "),
            Grp(1, <<Plus(In(AZ \cup D09 \cup {".", ",", " "}))>>),
            Lit(" has been credited to your a"), Opt(In({"/"})), Lit("c no."), Opt(In({" "})),
            Grp(2, <<Plus(In(D09 \cup {"x"}))>>), Lit(" on "),
            Grp(3, <<Plus(In(D09 \cup {"/"}))>>), Star(Dot)>>,
         attributes |-> [amount |-> 0, receiver |-> 1, date |-> 2]]
    >>,
     debit |-> <<
        [pattern |-> <<
            Lit("your a"), Opt(In({"/"})), Lit("c "), Grp(1, <<Plus(In(D09 \cup {"x"}))>>),
            Lit(" debited "), Grp(2, <<Plus(In(AZ \cup D09 \cup {".", ",", " "}))>>), Lit(" on "),
            Grp(3, <<Plus(In(D09 \cup {"/"}))>>), Star(Dot)>>,
         attributes |-> [sender |-> 0, amount |-> 1, date |-> 2]],
        [pattern |-> <<
            Star(Dot), Lit("a/c "), Grp(1, <<Plus(In(D09 \cup {"x"}))>>), Lit(" has a debit by "),
            Grp(2, <<Plus(Dot)>>), Lit(" of "),
            Grp(3, <<Plus(In(AZ \cup D09 \cup {",", ".", " "}))>>), Lit(" on "),
            Grp(4, <<Plus(In(D09 \cup {"/"}))>>), Lit("."), Star(Dot)>>,
         attributes |-> [sender |-> 0, receiver |-> 1, amount |-> 2, date |-> 3]]
    >>]

CBSSBITransactionSMSDecoder ==
    [TransactionSMSDecoder EXCEPT
        !.class_name = "CBSSBITransactionSMSDecoder",
        !.patterns = CBSSBITransactionSMSDecoder_patterns,
        !.debit_keywords = TransactionSMSDecoder.debit_keywords \o <<"debit">>,
        !.legal_tnx_keywords = TransactionSMSDecoder.legal_tnx_keywords \o <<"debit">>,
        !.illegal_tnx_keywords = TransactionSMSDecoder.illegal_tnx_keywords \o <<"request">>]

\* HDFCLITransactionSMSDecoder.patterns
HDFCLITransactionSMSDecoder_patterns ==
    [debit |-> <<
        [pattern |-> <<
            Lit("thank you! we have received your payment of "),
            Grp(1, <<Plus(In(AZ \cup D09 \cup {".", ",", " "}))>>), Lit(" for "), Plus(Dot),
            Lit(" on "), Grp(2, <<Plus(In(D09 \cup {"/"}))>>), Star(Dot)>>,
         attributes |-> [amount |-> 0, date |-> 1]]
    >>]

HDFCLITransactionSMSDecoder ==
    [TransactionSMSDecoder EXCEPT
        !.class_name = "HDFCLITransactionSMSDecoder",
        !.patterns = HDFCLITransactionSMSDecoder_patterns,
        !.debit_keywords = TransactionSMSDecoder.debit_keywords \o <<"we have received">>]

SBIOtpTransactionSMSDecoder ==
    [TransactionSMSDecoder EXCEPT
        !.class_name = "SBIOtpTransactionSMSDecoder"]

\* PSBankTransactionSMSDecoder.patterns
PSBankTransactionSMSDecoder_patterns ==
    [debit |-> <<
        [pattern |-> <<
            Grp(1, <<Plus(In(AZ \cup D09 \cup {" ", ".", ","}))>>), Lit(" debited from a/c "),
            Grp(2, <<Plus(In(D09 \cup {"*", "x"}))>>), Star(Dot),
            Grp(3, <<Plus(In(D09 \cup {"-", " ", ":"}))>>), Lit("."), Star(Dot)>>,
         attributes |-> [amount |-> 0, sender |-> 1, date |-> 2]],
        [pattern |-> <<
            Star(Dot), Lit("a/c no "), Grp(1, <<Plus(In(D09 \cup {"*", "x"}))>>), Lit(" debited"),
            Star(In({" "})), Star(Dot), Lit("with "),
            Grp(2, <<Plus(In(AZ \cup D09 \cup {" ", ".", ","}))>>), Lit("--"), Star(Dot), Lit("("),
            Grp(3, <<Plus(In(D09 \cup {"-", " ", ":"}))>>), Lit(")"), Star(Dot)>>,
         attributes |-> [receiver |-> 0, amount |-> 1, date |-> 2]],
        [pattern |-> <<
            Lit("rtgs transaction with reference number "), Grp(1, <<Plus(In(AZ \cup D09))>>),
            Lit(" for "), Grp(2, <<Plus(In(AZ \cup D09 \cup {".", ",", " "}))>>), Star(In({" "})),
            Lit("has been credited on "), Grp(3, <<Plus(In(AZ \cup D09 \cup {":", "-"}))>>),
            Star(In({" "})), Lit("to beneficiary"), Star(Dot)>>,
         attributes |-> [ref_no |-> 0, amount |-> 1, date |-> 2]],
        [pattern |-> <<
            Star(Dot), Lit("vpa "), Grp(1, <<Plus(NotWordOr(AZ \cup D09 \cup {" "}))>>),
            Lit(" linked to "), Star(Dot), Lit(" a/c no. "), Grp(2, <<Plus(In(D09 \cup {"x"}))>>),
            Lit(" is debited for "), Grp(3, <<Plus(In(AZ \cup D09 \cup {".", ",", " "}))>>),
            Lit(" and credited to "), Grp(4, <<Plus(NotWordOr(AZ \cup D09 \cup {" "}))>>),
            Lit(" (upi ref no "), Grp(5, <<Plus(In(D09))>>), Lit(")"), Star(Dot)>>,
         attributes |-> [sender |-> 1, amount |-> 2, receiver |-> 3, ref_no |-> 4]],
        [pattern |-> <<
            Lit("your a/c no. "), Grp(1, <<Plus(In(AZ \cup D09))>>), Lit(" is debited for "),
            Grp(2, <<Plus(In(AZ \cup D09 \cup {".", ",", " "}))>>), Lit(" on "),
            Grp(3, <<Plus(In(D09 \cup {"-"}))>>), Lit(" and credited to a/c no. "),
            Grp(4, <<Plus(In(AZ \cup D09))>>), Lit(" (upi ref no "), Grp(5, <<Plus(In(D09))>>),
            Lit(")"), Star(Dot)>>,
         attributes |-> [sender |-> 0, amount |-> 1, date |-> 2, receiver |-> 3, ref_no |-> 4]]
    >>,
     credit |-> <<
        [pattern |-> <<
            Star(Dot), Lit("a/c no "), Grp(1, <<Plus(In(D09 \cup {"*", "x"}))>>),
            Lit(" credited with "), Grp(2, <<Plus(In(AZ \cup D09 \cup {" ", ".", ","}))>>),
            Lit("--"), Star(Dot), Lit("("), Grp(3, <<Plus(In(D09 \cup {"-", " ", ":"}))>>),
            Lit(")"), Star(Dot)>>,
         attributes |-> [receiver |-> 0, amount |-> 1, date |-> 2]]
    >>]

PSBankTransactionSMSDecoder ==
    [TransactionSMSDecoder EXCEPT
        !.class_name = "PSBankTransactionSMSDecoder",
        !.patterns = PSBankTransactionSMSDecoder_patterns,
        !.debit_keywords = TransactionSMSDecoder.debit_keywords \o <<"rtgs transaction">>,
        !.illegal_tnx_keywords = TransactionSMSDecoder.illegal_tnx_keywords \o <<"will be">>]

\* AIRBnkTransactionSMSDecoder.patterns
AIRBnkTransactionSMSDecoder_patterns ==
    [debit |-> <<
        [pattern |-> <<
            Star(Dot), Lit("charge of "), Grp(1, <<Plus(In(AZ \cup D09 \cup {".", ",", " "}))>>),
            Lit(" "), Star(Dot), Lit(" for "), Star(Dot),
            Lit(" has been debited from your savings a/c "), Grp(2, <<Plus(In(AZ \cup D09))>>),
            Star(Dot)>>,
         attributes |-> [amount |-> 0, sender |-> 1]],
        [pattern |-> <<
            Lit("hello! you have successfully deposited ? "), Grp(1, <<Plus(In(D09 \cup {"."}))>>),
            Star(Dot), Lit("txn id # "), Grp(2, <<Plus(In(AZ \cup D09))>>), Lit(" on "),
            Grp(3, <<Plus(In(AZ \cup D09 \cup {"-", " ", ":"}))>>), Lit("."), Star(Dot)>>,
         attributes |-> [amount |-> 0, ref_no |-> 1, date |-> 2]]
    >>]

AIRBnkTransactionSMSDecoder ==
    [TransactionSMSDecoder EXCEPT
        !.class_name = "AIRBnkTransactionSMSDecoder",
        !.patterns = AIRBnkTransactionSMSDecoder_patterns,
        !.debit_keywords = TransactionSMSDecoder.debit_keywords \o <<"to company">>,
        !.illegal_tnx_keywords = TransactionSMSDecoder.illegal_tnx_keywords \o <<"registering">>]

\* UnionbTransactionSMSDecoder.patterns
UnionbTransactionSMSDecoder_patterns ==
    [credit |-> <<
        [pattern |-> <<
            Star(Dot), Lit("a/c "), Grp(1, <<Plus(In(D09 \cup {"*", "x"}))>>),
            Lit(" credited for "), Grp(2, <<Plus(In(AZ \cup D09 \cup {":", ",", ".", " "}))>>),
            Lit(" on "), Grp(3, <<Plus(In(D09 \cup {"-", " ", ":"}))>>), Lit(" "), Star(Dot),
            Lit(" ref no "), Grp(4, <<Plus(In(D09))>>), Star(Dot)>>,
         attributes |-> [receiver |-> 0, amount |-> 1, date |-> 2, ref_no |-> 3]],
        [pattern |-> <<
            Star(Dot), Lit("a/c "), Grp(1, <<Plus(In(D09 \cup {"*", "x"}))>>), Star(Dot),
            Lit(" credited for "), Grp(2, <<Plus(In(AZ \cup D09 \cup {":", ",", ".", " "}))>>),
            Lit(" on "), Grp(3, <<Plus(In(D09 \cup {"-", " ", ":"}))>>), Star(Dot)>>,
         attributes |-> [receiver |-> 0, amount |-> 1, date |-> 2]]
    >>,
     debit |-> <<
        [pattern |-> <<
            Star(Dot), Lit("a/c "), Grp(1, <<Plus(In(D09 \cup {"*", "x"}))>>),
            Lit(" debited for "), Grp(2, <<Plus(In(AZ \cup D09 \cup {":", ",", ".", " "}))>>),
            Lit(" on "), Grp(3, <<Plus(In(D09 \cup {"-", " ", ":"}))>>), Lit(" by "), Star(Dot),
            Lit(" ref no "), Grp(4, <<Plus(In(D09))>>), Star(Dot)>>,
         attributes |-> [sender |-> 0, amount |-> 1, date |-> 2, ref_no |-> 3]],
        [pattern |-> <<
            Star(Dot), Lit("a/c "), Grp(1, <<Plus(In(D09 \cup {"*", "x"}))>>),
            Lit(" debited for "), Grp(2, <<Plus(In(AZ \cup D09 \cup {":", ",", ".", " "}))>>),
            Lit(" on "), Grp(3, <<Plus(In(D09 \cup {"-", " ", ":"}))>>), Star(Dot)>>,
         attributes |-> [sender |-> 0, amount |-> 1, date |-> 2]],
        [pattern |-> <<
            Star(Dot), Lit("a/c no"), One(Dot), Lit(" "),
            Grp(1, <<Plus(In(D09 \cup {"*", "x"}))>>), Lit(" is debited for "),
            Grp(2, <<Plus(In(AZ \cup D09 \cup {":", ",", ".", " "}))>>), Lit(" on "),
            Grp(3, <<Plus(In(D09 \cup AZ \cup {"-", " ", ":", ","}))>>), Lit(" (upi ref no "),
            Grp(4, <<Plus(In(D09))>>), Lit(")"), Star(Dot)>>,
         attributes |-> [sender |-> 0, amount |-> 1, date |-> 2, ref_no |-> 3]]
    >>]

UnionbTransactionSMSDecoder ==
    [TransactionSMSDecoder EXCEPT
        !.class_name = "UnionbTransactionSMSDecoder",
        !.patterns = UnionbTransactionSMSDecoder_patterns,
        !.illegal_tnx_keywords = TransactionSMSDecoder.illegal_tnx_keywords \o <<"otp">>]

\* IDFCFbTransactionSMSDecoder.patterns
IDFCFbTransactionSMSDecoder_patterns ==
    [debit |-> <<
        [pattern |-> <<
            Lit("received "), Grp(1, <<Plus(In(AZ \cup D09 \cup {".", " ", ","}))>>),
            Lit(" by cash on "), Grp(2, <<Plus(In(D09 \cup {"/"}))>>),
            Lit(" vide ereceipt number "), Grp(3, <<Plus(In(AZ \cup D09))>>),
            Lit(" towards your loan a/c no. "), Grp(4, <<Plus(In(D09 \cup {"x"}))>>), Lit("."),
            Star(Dot)>>,
         attributes |-> [amount |-> 0, date |-> 1, ref_no |-> 2, receiver |-> 3]]
    >>]

IDFCFbTransactionSMSDecoder ==
    [TransactionSMSDecoder EXCEPT
        !.class_name = "IDFCFbTransactionSMSDecoder",
        !.patterns = IDFCFbTransactionSMSDecoder_patterns,
        !.debit_keywords = TransactionSMSDecoder.debit_keywords \o <<"towards your loan">>,
        !.illegal_tnx_keywords = TransactionSMSDecoder.illegal_tnx_keywords \o <<"start a new income stream", "will be">>]

ICIBnkTransactionSMSDecoder ==
    [TransactionSMSDecoder EXCEPT
        !.class_name = "ICIBnkTransactionSMSDecoder"]

AXISMRTranasctionSMSDecoder ==
    [TransactionSMSDecoder EXCEPT
        !.class_name = "AXISMRTranasctionSMSDecoder"]

SBICmpTransactionSMSDecoder ==
    [TransactionSMSDecoder EXCEPT
        !.class_name = "SBICmpTransactionSMSDecoder"]

SBGMBSTransactionSMSDecoder ==
    [TransactionSMSDecoder EXCEPT
        !.class_name = "SBGMBSTransactionSMSDecoder"]

PNBSmsTransactionSMSDecoder ==
    [TransactionSMSDecoder EXCEPT
        !.class_name = "PNBSmsTransactionSMSDecoder"]

decoders ==
    [paytmb |-> PaytmTransactionSMSDecoder,
     icicib |-> IcicibTransactionSMSDecoder,
     kotakb |-> KotakbTransactionSMSDecoder,
     indbnk |-> IndbnkTransactionSMSDecoder,
     sbiinb |-> SBIInbTransactionSMSDecoder,
     atmsbi |-> AtmSBITransactionSMSDecoder,
     sprcrd |-> SPRCRDTransactionSMSDecoder,
     sbidgt |-> SBIDGTTransactionSMSDecoder,
     axisbk |-> AxisBkTransactionSMSDecoder,
     rbisay |-> RBISayTransactionSMSDecoder,
     hdfcbk |-> HDFCBkTransactionSMSDecoder,
     sbyono |-> SBYONOTransactionSMSDecoder,
     hdfcbn |-> HDFCBNTransactionSMSDecoder,
     sbiupi |-> SBIUpiTransactionSMSDecoder,
     sbipsg |-> SBIPsgTransactionSMSDecoder,
     cbssbi |-> CBSSBITransactionSMSDecoder,
     hdfcli |-> HDFCLITransactionSMSDecoder,
     sbiotp |-> SBIOtpTransactionSMSDecoder,
     psbank |-> PSBankTransactionSMSDecoder,
     airbnk |-> AIRBnkTransactionSMSDecoder,
     unionb |-> UnionbTransactionSMSDecoder,
     idfcfb |-> IDFCFbTransactionSMSDecoder,
     icibnk |-> ICIBnkTransactionSMSDecoder,
     axismr |-> AXISMRTranasctionSMSDecoder,
     sbicmp |-> SBICmpTransactionSMSDecoder,
     sbgmbs |-> SBGMBSTransactionSMSDecoder,
     pnbsms |-> PNBSmsTransactionSMSDecoder]
-----------------------------------------------------------------------------
(* TransactionSMSDecoder: the methods                                      *)

\* is_transaction_sms without its second conjunct: the legal keywords alone decide
is_transaction_sms_legal_only(self, sms) ==
    AnyIn(self.legal_tnx_keywords, sms.body, 1)

is_transaction_sms(self, sms) ==
    /\ AnyIn(self.legal_tnx_keywords, sms.body, 1)
    /\ AllNotIn(self.illegal_tnx_keywords, sms.body, 1)

RECURSIVE first_keyword(_, _, _)
\* for keyword in keywords: if keyword in body: return ...  (0: the loop ends)
first_keyword(keywords, body, k) ==
    IF k > Len(keywords) THEN 0
    ELSE IF PyIn(keywords[k], body) THEN k
    ELSE first_keyword(keywords, body, k + 1)

\* get_tnx_type with its two loops in the other order
get_tnx_type_credit_first(self, sms) ==
    IF first_keyword(self.credit_keywords, sms.body, 1) # 0 THEN "credit"
    ELSE IF first_keyword(self.debit_keywords, sms.body, 1) # 0 THEN "debit"
    ELSE "unknown"

get_tnx_type(self, sms) ==
    IF first_keyword(self.debit_keywords, sms.body, 1) # 0 THEN "debit"
    ELSE IF first_keyword(self.credit_keywords, sms.body, 1) # 0 THEN "credit"
    ELSE "unknown"

IndexError == [t |-> "raise", v |-> "IndexError"]

\* groups[pos] with pos counted from one
GetItem_from_one(groups, pos) ==
    IF pos >= 1 /\ pos <= Len(groups) THEN groups[pos] ELSE IndexError

\* groups[pos] on a tuple
GetItem(groups, pos) ==
    IF pos >= 0 /\ pos < Len(groups) THEN groups[pos + 1]
    ELSE IF pos < 0 /\ -pos <= Len(groups) THEN groups[Len(groups) + pos + 1]
    ELSE IndexError

\* the body of "if match is not None" without the five assignments of None
fill_result_no_reset(result, attributes, groups) ==
    [a \in DOMAIN attributes |-> GetItem(groups, attributes[a])] @@ result

\* the body of "if match is not None": the five fields set to None, then each
\* attribute of the pattern set to its group
fill_result(result, attributes, groups) ==
    LET cleared ==
            [f \in {SENDER_FIELD, RECEIVER_FIELD, DATE_FIELD, REF_NO_FIELD, AMOUNT_FIELD}
                |-> None] @@ result
    IN [a \in DOMAIN attributes |-> GetItem(groups, attributes[a])] @@ cleared

\* the loop over the patterns without its break: every matching pattern fills
\* the result in turn
RECURSIVE decode_patterns_no_break(_, _, _, _)
decode_patterns_no_break(patterns, j, sms, result) ==
    IF j > Len(patterns) THEN result
    ELSE LET match == re_match(patterns[j].pattern, sms.body)
         IN IF match.ok
            THEN decode_patterns_no_break(
                     patterns, j + 1, sms,
                     fill_result(result, patterns[j].attributes, match.groups))
            ELSE decode_patterns_no_break(patterns, j + 1, sms, result)

\* the loop over the patterns left after its first pattern, matched or not
decode_patterns_first_only(patterns, j, sms, result) ==
    IF j > Len(patterns) THEN result
    ELSE LET match == re_match(patterns[j].pattern, sms.body)
         IN IF match.ok
            THEN fill_result(result, patterns[j].attributes, match.groups)
            ELSE result

\* for pattern in patterns, from the j-th on: the first that matches fills the
\* result and ends the loop
RECURSIVE decode_patterns(_, _, _, _)
decode_patterns(patterns, j, sms, result) ==
    IF j > Len(patterns) THEN result
    ELSE The({IF match.ok
              THEN fill_result(result, patterns[j].attributes, match.groups)
              ELSE decode_patterns(patterns, j + 1, sms, result)
              : match \in {re_match(patterns[j].pattern, sms.body)}})

\* decode with the early return of line 40 after the classification of the
\* direction instead of before it
decode_type_first(self, sms) ==
    LET result == SMS_TYPE_FIELD :> PyBool(is_transaction_sms(self, sms))
        typed == SetItem(result, TNX_TYPE_FIELD, Str(get_tnx_type(self, sms)))
        patterns == DictGet(self.patterns, typed[TNX_TYPE_FIELD].v, <<>>)
    IN IF result[SMS_TYPE_FIELD] = PyFalse THEN typed
       ELSE decode_patterns(patterns, 1, sms, typed)

\* decode with the five fields set to None before the loop over the patterns
\* instead of inside it
decode_fields_first(self, sms) ==
    LET result == SMS_TYPE_FIELD :> PyBool(is_transaction_sms(self, sms))
    IN IF result[SMS_TYPE_FIELD] = PyFalse THEN result
       ELSE LET typed == SetItem(result, TNX_TYPE_FIELD, Str(get_tnx_type(self, sms)))
                patterns == DictGet(self.patterns, typed[TNX_TYPE_FIELD].v, <<>>)
                cleared ==
                    [f \in {SENDER_FIELD, RECEIVER_FIELD, DATE_FIELD, REF_NO_FIELD,
                            AMOUNT_FIELD} |-> None] @@ typed
            IN decode_patterns(patterns, 1, sms, cleared)

decode(self, sms) ==
    The({IF result[SMS_TYPE_FIELD] = PyFalse THEN result
         ELSE The(UNION {
                    {decode_patterns(patterns, 1, sms, typed)
                     : patterns \in {DictGet(self.patterns, typed[TNX_TYPE_FIELD].v, <<>>)}}
                    : typed \in {SetItem(result, TNX_TYPE_FIELD,
                                         Str(get_tnx_type(self, sms)))}})
         : result \in {SMS_TYPE_FIELD :> PyBool(is_transaction_sms(self, sms))}})

\* an exception left decode
Raised(d) == \E k \in DOMAIN d : d[k].t = "raise"

-----------------------------------------------------------------------------
(* decode_smses                                                            *)

attributes == <<"tnx_type", "sender", "receiver", "date", "ref_no", "amount">>

\* data is NotImplemented
IsNotImplemented(d) == DOMAIN d = {"t", "v"} /\ d.t = "NotImplemented"

\* f"{(i + 1) * 100 / n:.2f}", in hundredths
Pct(i1, n) ==
    LET q == (i1 * 10000) \div n
        r == (i1 * 10000) % n
    IN IF 2 * r < n THEN q
       ELSE IF 2 * r > n THEN q + 1
       ELSE IF q % 2 = 0 THEN q ELSE q + 1

\* the line with the index counted from zero, as enumerate gives it
Line_from_zero(kind, args) ==
    [at |-> i + 1, kind |-> kind, index |-> i, total |-> Len(smses),
     pct |-> Pct(i + 1, Len(smses)), args |-> args]

\* print(f"[{i + 1}/{n} - {...:.2f}%] ..."): the kind of line and what it
\* names after the prefix; at is the message being handled
Line(kind, args) ==
    [at |-> i + 1, kind |-> kind, index |-> i + 1, total |-> Len(smses),
     pct |-> Pct(i + 1, Len(smses)), args |-> args]

\* print(data)
Dump(d) == [at |-> i + 1, kind |-> "data", data |-> d]

\* the loop over the attributes with no attribute ever found missing
first_missing_none(d, k) == 0

\* for attrib in attributes: if attrib not in data  (0: none is missing)
RECURSIVE first_missing(_, _)
first_missing(d, k) ==
    IF k > Len(attributes) THEN 0
    ELSE IF attributes[k] \notin DOMAIN d THEN k
    ELSE first_missing(d, k + 1)

\* the checks of the loop body with the attributes looked for in every result,
\* transaction or not
diagnostic_any_type(decoder, sms, d) ==
    IF IsNotImplemented(d)
    THEN <<Line("not_implemented", <<decoder.class_name>>)>>
    ELSE IF SMS_TYPE_FIELD \notin DOMAIN d
    THEN <<Line("failed_to_classify", <<sms.address, sms.body>>)>>
    ELSE IF first_missing(d, 1) # 0
    THEN <<Dump(d),
           Line("no_value_for_attribute",
                <<attributes[first_missing(d, 1)], sms.address, sms.body>>)>>
    ELSE <<>>

\* what the checks of the loop body print before "return"; <<>> when none does
diagnostic(decoder, sms, d) ==
    IF IsNotImplemented(d)
    THEN <<Line("not_implemented", <<decoder.class_name>>)>>
    ELSE IF SMS_TYPE_FIELD \notin DOMAIN d
    THEN <<Line("failed_to_classify", <<sms.address, sms.body>>)>>
    ELSE IF d[SMS_TYPE_FIELD] = PyTrue
    THEN IF first_missing(d, 1) # 0
         THEN <<Dump(d),
                Line("no_value_for_attribute",
                     <<attributes[first_missing(d, 1)], sms.address, sms.body>>)>>
         ELSE IF d[SMS_TYPE_FIELD] = Str("unknown")
         THEN <<Dump(d), Line("unknown_tnx_type", <<sms.address, sms.body>>)>>
         ELSE <<>>
    ELSE <<>>

\* the unknown address reported with "continue" in the place of "return"
NoDecoderContinue ==
    /\ pc = "for"
    /\ i < Len(smses)
    /\ smses[i + 1].address \notin DOMAIN decoders
    /\ out' = Append(out, Line("decoder_not_available", <<smses[i + 1].address>>))
    /\ i' = i + 1
    /\ UNCHANGED <<smses, pc, data, invoked>>

\* if sms.address not in decoders: print, return
NoDecoder ==
    /\ pc = "for"
    /\ i < Len(smses)
    /\ smses[i + 1].address \notin DOMAIN decoders
    /\ out' = Append(out, Line("decoder_not_available", <<smses[i + 1].address>>))
    /\ pc' = "return"
    /\ UNCHANGED <<smses, i, data, invoked>>

\* the decoder called twice on the message, once for the checks and once for data
DecodeTwice ==
    /\ pc = "for"
    /\ i < Len(smses)
    /\ smses[i + 1].address \in DOMAIN decoders
    /\ \E d \in {decode(decoders[smses[i + 1].address], smses[i + 1])} :
          IF Raised(d)
          THEN pc' = "raised" /\ data' = data
          ELSE pc' = "check" /\ data' = d
    /\ invoked' = Append(Append(invoked, i + 1), i + 1)
    /\ UNCHANGED <<smses, i, out>>

\* decoder = decoders[sms.address]; data = decoder.decode(sms)
Decode ==
    /\ pc = "for"
    /\ i < Len(smses)
    /\ smses[i + 1].address \in DOMAIN decoders
    /\ \E d \in {decode(decoders[smses[i + 1].address], smses[i + 1])} :
          IF Raised(d)
          THEN pc' = "raised" /\ data' = data
          ELSE pc' = "check" /\ data' = d
    /\ invoked' = Append(invoked, i + 1)
    /\ UNCHANGED <<smses, i, out>>

\* a check prints its diagnostic and the loop goes on with the next message
HaltContinue ==
    /\ pc = "check"
    /\ LET said == diagnostic(decoders[smses[i + 1].address], smses[i + 1], data)
       IN /\ Len(said) > 0
          /\ out' = out \o said
    /\ i' = i + 1
    /\ pc' = "for"
    /\ UNCHANGED <<smses, data, invoked>>

\* one of the checks on data prints its diagnostic and returns
Halt ==
    /\ pc = "check"
    /\ LET said == diagnostic(decoders[smses[i + 1].address], smses[i + 1], data)
       IN /\ Len(said) > 0
          /\ out' = out \o said
    /\ pc' = "return"
    /\ UNCHANGED <<smses, i, data, invoked>>

\* no check fires: the progress line, and on to the next message
Progress ==
    /\ pc = "check"
    /\ Len(diagnostic(decoders[smses[i + 1].address], smses[i + 1], data)) = 0
    /\ out' = Append(out, Line("done", <<>>))
    /\ i' = i + 1
    /\ pc' = "for"
    /\ UNCHANGED <<smses, data, invoked>>

\* the loop is over
Finish ==
    /\ pc = "for"
    /\ i = Len(smses)
    /\ pc' = "end"
    /\ UNCHANGED <<smses, i, data, out, invoked>>

-----------------------------------------------------------------------------
(* The inputs: message bodies as preprocess leaves them, and batches       *)

MaxFrags == 2
MaxBatch == 2

\* pieces of text the keyword lists react to, alone or next to each other
Frags ==
    {"debited", "credit", "ed", " cr ", "received", "we have ", "will be",
     "request", "otp", "successfully executed", "x"}

RECURSIVE Joined(_)
Joined(n) ==
    IF n = 0 THEN {""}
    ELSE Joined(n - 1) \cup {a \o f : a \in Joined(n - 1), f \in Frags}

\* whole messages, written after the pattern tables
PaytmDebit ==
    "rs.500.00 is debited from your account xyz123 for debit card annual charges of rs.0.00. remaining amount to be debited rs.0.00. ref id 998877 :ppbl"
PaytmCredit ==
    "received rs.50 in your a/c 1234 from a b on 01-02-2021. imps ref no: 77. :ppbl"
UnionCredit == "a/c x1234 credited for rs.50 on 01-02-2021 10:00 by upi ref no 7788"
AirtelDeposit == "hello! you have successfully deposited ? 77txn id # 77 on 77."
PaytmExecuted == "your payment was successfully executed"
PaytmWillBe == "an amount will be debited shortly"
LoginOtp == "your otp for login is 445566"
CardDebited == "rs.5 debited from your card"

Fixtures ==
    {PaytmDebit, PaytmCredit, UnionCredit, AirtelDeposit, PaytmExecuted, PaytmWillBe,
     LoginOtp, CardDebited}

Bodies == Fixtures \cup Joined(MaxFrags)

\* the messages the batches are made of
Inbox ==
    {SMS("paytmb", PaytmDebit), SMS("paytmb", PaytmCredit), SMS("unionb", UnionCredit),
     SMS("airbnk", AirtelDeposit), SMS("paytmb", PaytmExecuted),
     SMS("paytmb", PaytmWillBe), SMS("paytmb", LoginOtp), SMS("paytmb", CardDebited),
     SMS("sprcrd", LoginOtp), SMS("sprcrd", CardDebited), SMS("unknownsrc", CardDebited)}

Batches == UNION {[1..n -> Inbox] : n \in 0..MaxBatch}

-----------------------------------------------------------------------------
(* decode_smses(smses) on a batch                                          *)

Init ==
    /\ smses \in Batches
    /\ i = 0
    /\ pc = "for"
    /\ data = <<>>
    /\ out = <<>>
    /\ invoked = <<>>

Next == NoDecoder \/ Decode \/ Halt \/ Progress \/ Finish

Spec == Init /\ [][Next]_vars

\* the interpreter keeps executing the loop: a step that can be taken is taken
FairSpec == Spec /\ WF_vars(Next)

-----------------------------------------------------------------------------
(* One call of one method of a registered decoder on one message           *)

CallIsTransactionSms ==
    /\ pc = "call"
    /\ data' = PyBool(is_transaction_sms(decoders[smses[1].address], smses[1]))
    /\ pc' = "is_transaction_sms"
    /\ UNCHANGED <<smses, i, out, invoked>>

CallGetTnxType ==
    /\ pc = "call"
    /\ data' = Str(get_tnx_type(decoders[smses[1].address], smses[1]))
    /\ pc' = "get_tnx_type"
    /\ UNCHANGED <<smses, i, out, invoked>>

CallDecode ==
    /\ pc = "call"
    /\ data' = decode(decoders[smses[1].address], smses[1])
    /\ pc' = "decode"
    /\ UNCHANGED <<smses, i, out, invoked>>

InitDecode ==
    /\ smses \in {<<SMS(a, b)>> : a \in DOMAIN decoders, b \in Bodies}
    /\ i = 0
    /\ pc = "call"
    /\ data = <<>>
    /\ out = <<>>
    /\ invoked = <<>>

NextDecode == CallIsTransactionSms \/ CallGetTnxType \/ CallDecode

SpecDecode == InitDecode /\ [][NextDecode]_vars

-----------------------------------------------------------------------------
(* What the properties below are stated with                               *)

\* sub occurs in s: some beginning of s is a shorter beginning of s, then sub
Occurs(sub, s) ==
    \E a \in 0..Len(s) :
        /\ a + Len(sub) <= Len(s)
        /\ SubSeq(s, 1, a) \o sub = SubSeq(s, 1, a + Len(sub))

SomeOccurs(keywords, s) == \E k \in 1..Len(keywords) : Occurs(keywords[k], s)

\* the direction the keyword lists give a body
Direction(self, body) ==
    IF SomeOccurs(self.debit_keywords, body) THEN "debit"
    ELSE IF SomeOccurs(self.credit_keywords, body) THEN "credit"
    ELSE "unknown"

Fields == {SENDER_FIELD, RECEIVER_FIELD, DATE_FIELD, REF_NO_FIELD, AMOUNT_FIELD}

\* the patterns a decoder holds for a direction, and those of them a body matches
PatternsFor(self, direction) ==
    IF direction \in DOMAIN self.patterns THEN self.patterns[direction] ELSE <<>>

Matching(ps, body) == {j \in 1..Len(ps) : re_match(ps[j].pattern, body).ok}

\* some pattern of ps matches the body
Matched(ps, body) == \E j \in 1..Len(ps) : re_match(ps[j].pattern, body).ok

Lowest(S) == CHOOSE x \in S : \A y \in S : x <= y

\* what the field map of pattern p gives field f on a body that p matches
Mapped(p, body, f) ==
    IF f \in DOMAIN p.attributes
    THEN re_match(p.pattern, body).groups[p.attributes[f] + 1]
    ELSE None

\* the decoder and the body of the one call of SpecDecode
TheDecoder == decoders[smses[1].address]
TheBody == smses[1].body

-----------------------------------------------------------------------------
(* The methods of a decoder (SpecDecode)                                   *)

\* C1: for every registered decoder and every body, is_transaction_sms returns
\* true if and only if some legal keyword of the decoder is a substring of the
\* body and no illegal keyword of it is; a body that holds an illegal keyword is
\* never a transaction, whatever legal keywords it holds.
C1_TransactionIffLegalAndNotIllegal ==
    pc = "is_transaction_sms" =>
        /\ data = PyBool(/\ SomeOccurs(TheDecoder.legal_tnx_keywords, TheBody)
                         /\ ~SomeOccurs(TheDecoder.illegal_tnx_keywords, TheBody))
        /\ SomeOccurs(TheDecoder.illegal_tnx_keywords, TheBody) => data = PyFalse

\* a body with a legal and an illegal keyword, answered false
C1_Witness ==
    /\ pc = "is_transaction_sms"
    /\ SomeOccurs(TheDecoder.legal_tnx_keywords, TheBody)
    /\ SomeOccurs(TheDecoder.illegal_tnx_keywords, TheBody)
    /\ data = PyFalse

\* C2: get_tnx_type returns "debit" whenever a debit keyword occurs in the body,
\* wherever it occurs and whether or not a credit keyword occurs too; "credit"
\* only when no debit keyword occurs and a credit keyword does; "unknown" exactly
\* when no keyword of either list occurs.
C2_DebitBeforeCredit ==
    pc = "get_tnx_type" =>
        /\ SomeOccurs(TheDecoder.debit_keywords, TheBody) => data = Str("debit")
        /\ data = Str("credit") =>
              /\ ~SomeOccurs(TheDecoder.debit_keywords, TheBody)
              /\ SomeOccurs(TheDecoder.credit_keywords, TheBody)
        /\ data = Str("unknown") <=>
              /\ ~SomeOccurs(TheDecoder.debit_keywords, TheBody)
              /\ ~SomeOccurs(TheDecoder.credit_keywords, TheBody)
        /\ data \in {Str("debit"), Str("credit"), Str("unknown")}

\* a body that begins with a credit keyword and holds a debit keyword further on,
\* answered "debit"
C2_Witness ==
    /\ pc = "get_tnx_type"
    /\ \E k \in 1..Len(TheDecoder.credit_keywords) :
          /\ Len(TheDecoder.credit_keywords[k]) <= Len(TheBody)
          /\ SubSeq(TheBody, 1, Len(TheDecoder.credit_keywords[k]))
                = TheDecoder.credit_keywords[k]
    /\ SomeOccurs(TheDecoder.debit_keywords, TheBody)
    /\ data = Str("debit")

\* C3: extraction is first-match-wins. For a confirmed transaction decode tries
\* only the patterns of the classified direction, in declared order; the five
\* extraction fields come from the field map of the lowest-indexed matching
\* pattern alone (a field it does not map is null); no later pattern of the
\* direction and no pattern of the other direction contributes a value.
C3_FirstMatchWins ==
    (pc = "decode" /\ data[SMS_TYPE_FIELD] = PyTrue) =>
        LET direction == Direction(TheDecoder, TheBody)
            ps == PatternsFor(TheDecoder, direction)
            M == Matching(ps, TheBody)
        IN /\ data[TNX_TYPE_FIELD] = Str(direction)
           /\ IF M = {}
              THEN \A f \in Fields : f \notin DOMAIN data
              ELSE \A f \in Fields :
                      /\ f \in DOMAIN data
                      /\ data[f] = Mapped(ps[Lowest(M)], TheBody, f)

\* two patterns of the direction match the body and the later one would have
\* given some field another value
C3_Witness ==
    /\ pc = "decode"
    /\ data[SMS_TYPE_FIELD] = PyTrue
    /\ LET ps == PatternsFor(TheDecoder, data[TNX_TYPE_FIELD].v)
           M == Matching(ps, TheBody)
       IN \E j \in M :
             /\ j > Lowest(M)
             /\ \E f \in Fields :
                   /\ f \in DOMAIN data
                   /\ data[f] # Mapped(ps[j], TheBody, f)

\* C4: a result of decode whose sms_type is false holds no other field: the
\* direction and the five extraction fields are absent. So it is for every body
\* in which no legal keyword occurs.
C4_NonTransactionHoldsOnlyMarker ==
    pc = "decode" =>
        /\ data[SMS_TYPE_FIELD] = PyFalse => DOMAIN data = {SMS_TYPE_FIELD}
        /\ ~SomeOccurs(TheDecoder.legal_tnx_keywords, TheBody) =>
              data = (SMS_TYPE_FIELD :> PyFalse)

\* a body with a debit keyword that is no transaction: the marker alone
C4_Witness ==
    /\ pc = "decode"
    /\ data[SMS_TYPE_FIELD] = PyFalse
    /\ SomeOccurs(TheDecoder.debit_keywords, TheBody)
    /\ TNX_TYPE_FIELD \notin DOMAIN data

\* C5, as stated: a result of decode whose sms_type is true holds the direction
\* and all five extraction fields, null every one of them when no pattern of the
\* direction matched.
C5_FieldsAlwaysPresent ==
    (pc = "decode" /\ data[SMS_TYPE_FIELD] = PyTrue) =>
        /\ TNX_TYPE_FIELD \in DOMAIN data
        /\ \A f \in Fields :
              /\ f \in DOMAIN data
              /\ Matching(PatternsFor(TheDecoder, data[TNX_TYPE_FIELD].v), TheBody) = {}
                    => data[f] = None

\* C5, amended: a result of decode whose sms_type is true holds the direction;
\* it holds all five extraction fields, each captured text or null, when a
\* pattern of the direction matched, and none of the five when no pattern of the
\* direction matched.
C5_FieldsPresentIffMatched ==
    (pc = "decode" /\ data[SMS_TYPE_FIELD] = PyTrue) =>
        /\ TNX_TYPE_FIELD \in DOMAIN data
        /\ data[TNX_TYPE_FIELD].v \in {"debit", "credit", "unknown"}
        /\ IF ~Matched(PatternsFor(TheDecoder, data[TNX_TYPE_FIELD].v), TheBody)
           THEN DOMAIN data = {SMS_TYPE_FIELD, TNX_TYPE_FIELD}
           ELSE /\ DOMAIN data = {SMS_TYPE_FIELD, TNX_TYPE_FIELD} \cup Fields
                /\ \A f \in Fields : data[f].t \in {"str", "none"}

\* a confirmed debit or credit that none of the patterns of its direction
\* matches: the direction is there, none of the five fields is
C5_Witness ==
    /\ pc = "decode"
    /\ data[SMS_TYPE_FIELD] = PyTrue
    /\ data[TNX_TYPE_FIELD].v \in {"debit", "credit"}
    /\ Len(PatternsFor(TheDecoder, data[TNX_TYPE_FIELD].v)) > 0
    /\ Fields \cap DOMAIN data = {}

-----------------------------------------------------------------------------
(* decode_smses (Spec)                                                     *)

Registered(k) == smses[k].address \in DOMAIN decoders

\* what decode returns for the k-th message
Result(k) == decode(decoders[smses[k].address], smses[k])

\* the run ended at the k-th message / went past it
HaltedAt(k) == pc = "return" /\ i = k - 1
Passed(k) == i >= k

\* the lines that report an anomaly
Diagnostics ==
    {"decoder_not_available", "not_implemented", "failed_to_classify",
     "no_value_for_attribute", "unknown_tnx_type"}

\* the k-th message is a confirmed transaction of its decoder
Confirmed(k) ==
    /\ Registered(k)
    /\ SomeOccurs(decoders[smses[k].address].legal_tnx_keywords, smses[k].body)
    /\ ~SomeOccurs(decoders[smses[k].address].illegal_tnx_keywords, smses[k].body)

\* a confirmed transaction, debit or credit, that no pattern of its direction matches
Unmatched(k) ==
    /\ Confirmed(k)
    /\ Direction(decoders[smses[k].address], smses[k].body) \in {"debit", "credit"}
    /\ ~Matched(PatternsFor(decoders[smses[k].address],
                            Direction(decoders[smses[k].address], smses[k].body)),
                smses[k].body)

\* C6, as stated: a confirmed transaction of direction debit or credit that no
\* pattern of its direction matches is a normal outcome: decode_smses prints the
\* progress line for it and goes on with the next message; it does not halt.
C6_UnmatchedIsNormal ==
    \A k \in 1..Len(smses) :
        \/ /\ ~HaltedAt(k)
           /\ Passed(k) => \E j \in 1..Len(out) : out[j].kind = "done" /\ out[j].at = k
        \/ ~Unmatched(k)

\* C6, amended: such a message is an anomaly: decode_smses never prints its
\* progress line nor goes past it; it prints the result, then the diagnostic of a
\* missing attribute, which names 'sender', and returns.
C6_UnmatchedHalts ==
    \A k \in 1..Len(smses) :
        \/ ~Registered(k)
        \/ /\ ~Passed(k)
           /\ \A j \in 1..Len(out) : out[j].kind = "done" => out[j].at # k
           /\ HaltedAt(k) =>
                 /\ Len(out) >= 2
                 /\ out[Len(out) - 1] = [at |-> k, kind |-> "data", data |-> Result(k)]
                 /\ out[Len(out)].kind = "no_value_for_attribute"
                 /\ out[Len(out)].index = k
                 /\ out[Len(out)].args = <<SENDER_FIELD, smses[k].address, smses[k].body>>
        \/ ~Unmatched(k)

\* the run ended at such a message with a registered message still to come
C6_Witness ==
    \E k \in 1..Len(smses) :
        /\ Unmatched(k)
        /\ HaltedAt(k)
        /\ out[Len(out)].kind = "no_value_for_attribute"
        /\ k < Len(smses)
        /\ Registered(k + 1)

\* C7: batch processing is fail-fast. Once an anomaly is reported at message k, no
\* decoder is invoked and nothing is printed for a message after k; a batch gets
\* at most one diagnostic, and it is the last output.
C7_FailFast ==
    LET diags == {j \in 1..Len(out) : out[j].kind \in Diagnostics}
    IN /\ Cardinality(diags) <= 1
       /\ \A j \in diags :
             /\ j = Len(out)
             /\ pc = "return"
             /\ i = out[j].at - 1
             /\ \A e \in 1..Len(out) : out[e].at <= out[j].at
             /\ \A x \in 1..Len(invoked) : invoked[x] <= out[j].at

\* a diagnostic at a message with a message behind it that would have been
\* handled without an anomaly
C7_Witness ==
    /\ pc = "return"
    /\ out # <<>>
    /\ out[Len(out)].kind \in Diagnostics
    /\ i + 2 <= Len(smses)
    /\ Registered(i + 2)
    /\ Result(i + 2)[SMS_TYPE_FIELD] = PyFalse

\* C8: when the address of message k is no key of the registry, decode_smses
\* prints the "decoder not available" diagnostic for k, invokes no decoder on it,
\* and returns: the messages after k are not handled, registered or not.
C8_UnknownSourceHalts ==
    \A k \in 1..Len(smses) :
        ~Registered(k) =>
            /\ ~Passed(k)
            /\ \A x \in 1..Len(invoked) : invoked[x] < k
            /\ \A e \in 1..Len(out) : out[e].at <= k
            /\ (i = k - 1 /\ pc # "for") =>
                  /\ pc = "return"
                  /\ out # <<>>
                  /\ out[Len(out)] =
                        [at |-> k, kind |-> "decoder_not_available", index |-> k,
                         total |-> Len(smses), pct |-> Pct(k, Len(smses)),
                         args |-> <<smses[k].address>>]

\* the run ended at an unknown address with a registered message behind it
C8_Witness ==
    \E k \in 1..Len(smses) :
        /\ ~Registered(k)
        /\ HaltedAt(k)
        /\ out[Len(out)].kind = "decoder_not_available"
        /\ k < Len(smses)
        /\ Registered(k + 1)

\* C9: for a confirmed transaction whose direction is "unknown", decode_smses
\* prints the "decoder returned 'unknown' transaction type" diagnostic, not the
\* one of a missing attribute, and returns.
C9_UnknownDirectionReported ==
    \A k \in 1..Len(smses) :
        \/ /\ ~Passed(k)
           /\ HaltedAt(k) => out # <<>> /\ out[Len(out)].kind = "unknown_tnx_type"
        \/ ~Confirmed(k)
        \/ Direction(decoders[smses[k].address], smses[k].body) # "unknown"

\* a decoder class that declares nothing of its own
Placeholder(a) ==
    /\ a \in DOMAIN decoders
    /\ DOMAIN decoders[a].patterns = {}
    /\ decoders[a].debit_keywords = TransactionSMSDecoder.debit_keywords
    /\ decoders[a].credit_keywords = TransactionSMSDecoder.credit_keywords
    /\ decoders[a].legal_tnx_keywords = TransactionSMSDecoder.legal_tnx_keywords
    /\ decoders[a].illegal_tnx_keywords = TransactionSMSDecoder.illegal_tnx_keywords

\* C10: for a message whose address maps to a placeholder decoder, whatever its
\* body, decode_smses prints the "is not implemented" diagnostic and returns at
\* that message.
C10_PlaceholderReported ==
    \A k \in 1..Len(smses) :
        \/ /\ ~Passed(k)
           /\ HaltedAt(k) => out # <<>> /\ out[Len(out)].kind = "not_implemented"
        \/ ~Placeholder(smses[k].address)

\* C11: every diagnostic decode_smses prints before it returns, of whichever
\* kind, names the index of the offending message and the body of that message.
C11_DiagnosticNamesIndexAndBody ==
    \A j \in 1..Len(out) :
        out[j].kind \in Diagnostics =>
            /\ out[j].index = out[j].at
            /\ \E a \in 1..Len(out[j].args) : out[j].args[a] = smses[out[j].at].body

-----------------------------------------------------------------------------
(* The pattern tables and the results of decode (SpecDecode)               *)

\* C12: in every pattern of every registered decoder, every index of the
\* attribute map is an index of one of the pattern's capture groups; so decode
\* never fails with an out-of-range group access while it fills the fields,
\* whatever the body.
C12_FieldMapIndicesValid ==
    /\ pc = "call" =>
          \A direction \in DOMAIN TheDecoder.patterns :
              \A j \in 1..Len(TheDecoder.patterns[direction]) :
                  LET p == TheDecoder.patterns[direction][j]
                  IN \A f \in DOMAIN p.attributes :
                        p.attributes[f] \in 0..(re_groups(p.pattern) - 1)
    /\ pc = "decode" => \A f \in DOMAIN data : data[f] # IndexError

\* a body matched by a pattern one of whose attributes is its last group, and
\* the text of that group is in the result
C12_Witness ==
    /\ pc = "decode"
    /\ data[SMS_TYPE_FIELD] = PyTrue
    /\ LET ps == PatternsFor(TheDecoder, data[TNX_TYPE_FIELD].v)
           M == Matching(ps, TheBody)
       IN /\ M # {}
          /\ \E f \in DOMAIN ps[Lowest(M)].attributes :
                /\ ps[Lowest(M)].attributes[f] = re_groups(ps[Lowest(M)].pattern) - 1
                /\ data[f].t = "str"

-----------------------------------------------------------------------------
(* decode_smses, message by message (Spec)                                 *)

\* C13: at a message from a registered source that is no transaction,
\* decode_smses never returns: it prints the progress line of that index and
\* goes on to the next message, whatever the patterns of the decoder and
\* whatever direction keywords the body holds.
C13_NonTransactionNeverHalts ==
    \A k \in 1..Len(smses) :
        \/ ~Registered(k)
        \/ /\ ~HaltedAt(k)
           /\ Passed(k) => \E j \in 1..Len(out) : out[j].kind = "done" /\ out[j].at = k
        \/ Confirmed(k)

\* a message with a debit keyword that is no transaction got its progress line
\* and the decoder went on to the message behind it
C13_Witness ==
    \E k \in 1..Len(smses) :
        /\ Registered(k)
        /\ ~Confirmed(k)
        /\ SomeOccurs(decoders[smses[k].address].debit_keywords, smses[k].body)
        /\ \E j \in 1..Len(out) : out[j].kind = "done" /\ out[j].at = k
        /\ \E x \in 1..Len(invoked) : invoked[x] = k + 1

\* the first i outputs are the progress lines of the messages 1..i, in order, and
\* the decoders were invoked on the messages in order, each once
InOrder ==
    /\ Len(out) >= i
    /\ \A j \in 1..i :
          /\ out[j].kind = "done"
          /\ out[j].at = j
          /\ out[j].index = j
          /\ out[j].total = Len(smses)
    /\ \A x \in 1..Len(invoked) : invoked[x] = x
    /\ pc = "end" => i = Len(smses)
    /\ pc # "return" => Len(out) = i

\* C14, as stated: the messages are handled in input order and every index
\* printed is the position of its message. When the batch halts at message k the
\* outputs are exactly the progress lines of 1..k-1, in order, each once, then the
\* diagnostic with index k; when it does not halt, exactly the progress lines of
\* 1..n. Every line gives n as the total.
C14_ProgressLinesThenDiagnostic ==
    /\ InOrder
    /\ pc = "return" =>
          /\ Len(out) = i + 1
          /\ out[i + 1].kind \in Diagnostics
          /\ out[i + 1].index = i + 1
          /\ out[i + 1].total = Len(smses)

\* C14, amended: as stated, but when the anomaly is a missing attribute the
\* result of decode for message k is printed between the progress line of k-1
\* and the diagnostic of k.
C14_ProgressLinesThenResultAndDiagnostic ==
    /\ InOrder
    /\ pc = "return" =>
          /\ Len(out) \in {i + 1, i + 2}
          /\ out[Len(out)].kind \in Diagnostics
          /\ out[Len(out)].at = i + 1
          /\ out[Len(out)].index = i + 1
          /\ out[Len(out)].total = Len(smses)
          /\ Len(out) = i + 2 <=> out[Len(out)].kind = "no_value_for_attribute"
          /\ Len(out) = i + 2 => out[i + 1] = [at |-> i + 1, kind |-> "data", data |-> data]

\* a batch that halts at its second message for a missing attribute: a progress
\* line, the result, the diagnostic
C14_Witness ==
    /\ pc = "return"
    /\ i >= 1
    /\ Len(out) = i + 2
    /\ out[i].kind = "done"
    /\ out[i + 1].kind = "data"
    /\ out[i + 2].kind = "no_value_for_attribute"

-----------------------------------------------------------------------------
(* The shape of a result of decode (SpecDecode)                            *)

\* C15: a result of decode has one of three sets of keys: sms_type alone, for a
\* message that is no transaction; sms_type and tnx_type, for a transaction no
\* pattern matched; these two and sender, receiver, date, ref_no, amount, for a
\* transaction a pattern matched. The five fields are all there or all absent
\* and no other key appears; so a missing-attribute diagnostic of decode_smses
\* names 'sender', never 'tnx_type'.
C15_ThreeShapes ==
    pc = "decode" =>
        /\ DOMAIN data = IF data[SMS_TYPE_FIELD] = PyFalse
                         THEN {SMS_TYPE_FIELD}
                         ELSE IF ~Matched(PatternsFor(TheDecoder,
                                                      Direction(TheDecoder, TheBody)),
                                          TheBody)
                         THEN {SMS_TYPE_FIELD, TNX_TYPE_FIELD}
                         ELSE {SMS_TYPE_FIELD, TNX_TYPE_FIELD} \cup Fields
        /\ \A e \in 1..Len(diagnostic(TheDecoder, smses[1], data)) :
              diagnostic(TheDecoder, smses[1], data)[e].kind = "no_value_for_attribute"
                  => diagnostic(TheDecoder, smses[1], data)[e].args[1] = SENDER_FIELD

\* a transaction of unknown direction: two keys, and the checks of decode_smses
\* find 'sender' missing
C15_Witness ==
    /\ pc = "decode"
    /\ DOMAIN data = {SMS_TYPE_FIELD, TNX_TYPE_FIELD}
    /\ data[TNX_TYPE_FIELD] = Str("unknown")
    /\ Len(diagnostic(TheDecoder, smses[1], data)) = 2
    /\ diagnostic(TheDecoder, smses[1], data)[2].kind = "no_value_for_attribute"
    /\ diagnostic(TheDecoder, smses[1], data)[2].args[1] = SENDER_FIELD

-----------------------------------------------------------------------------
(* decode_smses, the whole batch (Spec)                                    *)

\* the k-th message has a registered source and is either no transaction or
\* matched by a pattern of its direction
Clean(k) ==
    /\ Registered(k)
    /\ \/ ~Confirmed(k)
       \/ Matched(PatternsFor(decoders[smses[k].address],
                              Direction(decoders[smses[k].address], smses[k].body)),
                  smses[k].body)

\* C16: decode_smses runs through the whole batch and reports no anomaly if and
\* only if every message has a registered source and is either no transaction or
\* matched by a pattern of its classified direction; it halts at the first
\* message that has an unregistered source or is a confirmed transaction no
\* pattern of its direction matches (so at every confirmed transaction of
\* direction "unknown" or for a decoder with an empty pattern table).
C16_WholeBatchIffAllClean ==
    /\ pc = "end" =>
          /\ i = Len(smses)
          /\ \A j \in 1..Len(out) : out[j].kind \notin Diagnostics
          /\ \A k \in 1..Len(smses) : Clean(k)
    /\ pc = "return" =>
          /\ out # <<>>
          /\ out[Len(out)].kind \in Diagnostics
          /\ out[Len(out)].at = i + 1
          /\ \A k \in 1..i : Clean(k)
          /\ ~Clean(i + 1)

\* a batch that halts at its second message, a confirmed transaction for a
\* decoder with an empty pattern table
C16_Witness ==
    /\ pc = "return"
    /\ i >= 1
    /\ Registered(i + 1)
    /\ Confirmed(i + 1)
    /\ DOMAIN decoders[smses[i + 1].address].patterns = {}

\* C17: on a batch of n messages decode_smses terminates after it examined at
\* most n messages, each at most once; it carries nothing from one message to
\* the next: what it does with a message depends on that message alone and on
\* the registry, which is never modified; on the empty batch it terminates with
\* no output.
C17_TerminatesInOnePass ==
    /\ [](/\ i <= Len(smses)
          /\ Len(invoked) <= Len(smses)
          /\ \A x \in 1..Len(invoked) :
                /\ invoked[x] \in 1..Len(smses)
                /\ \A y \in 1..Len(invoked) : x < y => invoked[x] < invoked[y]
          /\ pc = "check" => data = Result(i + 1)
          /\ (pc = "return" /\ Registered(i + 1)) =>
                SubSeq(out, i + 1, Len(out))
                    = diagnostic(decoders[smses[i + 1].address], smses[i + 1],
                                 Result(i + 1))
          /\ Len(smses) = 0 => (out = <<>> /\ invoked = <<>>))
    /\ [][smses' = smses]_vars
    /\ <>(pc \in {"end", "return"})

\* a batch of two messages handled to its end: the decoder was invoked once on
\* each
C17_Witness ==
    /\ pc = "end"
    /\ Len(smses) >= 2
    /\ invoked = <<1, 2>>
    /\ Len(out) = Len(smses)

====
